---- MODULE Spec2Model ----
(***************************************************************************)
(* Habit / goal-conflict / recommendation-ranking core of                  *)
(* src/habit_goalconflict_airanking.                                       *)
(*                                                                         *)
(* Numbers.  Every probability-like float is a fixed-point integer in      *)
(* millionths (One = 1.0).  Weights are written in hundredths, so          *)
(* 0.28 * confidence is (28 * confidence) \div 100; a weighted sum is      *)
(* added up in units of 1e-8 and divided once.  Python's round(x, n) is    *)
(* RoundTo (round-half-even).  Money is in whole currency units.           *)
(***************************************************************************)
EXTENDS Integers, Sequences, FiniteSets, TLC

VARIABLES
    habit_model,     \* RuleEnhancedHabitDetector.model (None or the loaded artifact)
    strategy_model,  \* recommendation_engine._STRATEGY_MODEL
    pc,              \* "idle": no call in progress; "done": a call has returned
    call,            \* the entry point called and its arguments
    result,          \* what the call returned
    scored_lists     \* the list `scored` of each rank call that is between two steps

vars == <<habit_model, strategy_model, pc, call, result, scored_lists>>

----------------------------------------------------------------------------
(* Fixed-point arithmetic *)

One == 1000 * 1000

\* n hundredths: Pct(45) is 0.45
Pct(n) == n * 10000

Min(a, b) == IF a <= b THEN a ELSE b
Max(a, b) == IF a >= b THEN a ELSE b

\* min(max(x, 0.0), 1.0)
Clamp01(x) == Min(Max(x, 0), One)

\* round(x, n) with q = 10^(6-n): round half to even
RoundTo(x, q) ==
    LET r == x % q
        b == x - r
    IN  IF 2 * r < q THEN b
        ELSE IF 2 * r > q THEN b + q
        ELSE IF (b \div q) % 2 = 0 THEN b ELSE b + q

Round3(x) == RoundTo(x, 1000)
Round4(x) == RoundTo(x, 100)

\* floor(a * One / b) for 0 <= a, 0 < b, both below 2,000,000, without
\* leaving 32-bit range
Ratio(a, b) ==
    LET q1 == (a * 1000) \div b
        r1 == (a * 1000) % b
    IN  q1 * 1000 + (r1 * 1000) \div b

\* min(a / b, 1.0) for a >= 0, b > 0
RatioCap1(a, b) == IF a >= b THEN One ELSE Ratio(a, b)

RECURSIVE SumSeq(_)
SumSeq(s) == IF s = <<>> THEN 0 ELSE Head(s) + SumSeq(Tail(s))

SeqRange(s) == {s[i] : i \in 1..Len(s)}

----------------------------------------------------------------------------
(* category_config.py *)

ALLOWED_CATEGORIES ==
    [Fixed |-> {"rent", "insurance", "loan payments"},
     Variable |-> {"Food and groceries", "utilities", "transport", "medical"},
     Discretionary |-> {"dinning out", "shopping", "entertainment",
                        "subscriptions", "travel"}]

\* mutant of StripLower: the category compared as given
AsGiven(s) == s

\* str.strip().lower() on the category spellings the model uses
StripLower(s) ==
    CASE s = " Rent " -> "rent"
      [] s = "RENT" -> "rent"
      [] s = "Insurance" -> "insurance"
      [] s = "Loan Payments " -> "loan payments"
      [] s = "Food and groceries" -> "food and groceries"
      [] s = " Shopping" -> "shopping"
      [] s = "Travel" -> "travel"
      [] s = "General" -> "general"
      [] OTHER -> s

\* CATEGORY_TO_NATURE.get(key, ""): keys are the stripped, lower-cased names
CategoryNature(key) ==
    IF \E c \in ALLOWED_CATEGORIES.Fixed : StripLower(c) = key THEN "Fixed"
    ELSE IF \E c \in ALLOWED_CATEGORIES.Variable : StripLower(c) = key THEN "Variable"
    ELSE IF \E c \in ALLOWED_CATEGORIES.Discretionary : StripLower(c) = key
         THEN "Discretionary"
    ELSE ""

----------------------------------------------------------------------------
(* habbit.py: RuleEnhancedHabitDetector *)

NoModel == "none"

\* The artifacts a process may have loaded.  An artifact is opaque to the
\* repository; these differ in whether predict_proba raises and in the
\* probabilities it gives (train_habit_model.py fits a forest of depth 6, whose
\* leaf averages are arbitrary fractions).
HabitArtifacts == {"habit_clf_frequency", "habit_clf_forest", "habit_clf_broken"}

\* does self.model.predict_proba(df) raise?
HabitInferenceRaises(model) == model = "habit_clf_broken"

\* self.model.predict_proba(df)[0][1]
HabitPredictProba(model, f) ==
    IF model = "habit_clf_forest"
    THEN Min(One, Pct(50) + 106850 * f.avg_weekly_frequency)
    ELSE RatioCap1(f.avg_weekly_frequency, 7)

_rule_score(f) ==
    Clamp01( (IF f.avg_weekly_frequency >= 4 THEN Pct(25) ELSE 0)
           + (IF f.consistency >= Pct(60) THEN Pct(20) ELSE 0)
           + (IF f.weeks_active >= 8 THEN Pct(20) ELSE 0)
           + (IF f.weekend_ratio >= Pct(55) THEN Pct(15) ELSE 0)
           + (IF f.night_ratio >= Pct(45) THEN Pct(20) ELSE 0) )

\* mutant of _ml_score: a missing artifact is loaded again when the score is asked for
_ml_score_reloading(model, f) ==
    IF model = NoModel THEN HabitPredictProba("habit_clf_frequency", f)
    ELSE IF HabitInferenceRaises(model) THEN _rule_score(f)
    ELSE HabitPredictProba(model, f)

_ml_score(model, f) ==
    IF model = NoModel THEN _rule_score(f)
    ELSE IF HabitInferenceRaises(model) THEN _rule_score(f)
    ELSE HabitPredictProba(model, f)

_habit_intensity(combined_score) ==
    IF combined_score >= Pct(75) THEN "High"
    ELSE IF combined_score >= Pct(50) THEN "Medium"
    ELSE "Low"

\* the description is a formatted string; the model keeps the pattern chosen
\* and the category it was formatted with
_habit_category(category, f) ==
    LET category_key == StripLower(category)
        nature == CategoryNature(category_key)
    IN  IF nature = "Fixed"
        THEN [pattern |-> "Recurring fixed-payment pattern", category |-> category]
        ELSE IF f.night_ratio >= Pct(50)
                /\ category_key \in {"food and groceries", "dinning out"}
        THEN [pattern |-> "Late-night food spending", category |-> ""]
        ELSE IF f.weekend_ratio >= Pct(55)
        THEN [pattern |-> "Weekend-heavy spending", category |-> category]
        ELSE IF f.avg_weekly_frequency >= 5
        THEN [pattern |-> "High-frequency spending", category |-> category]
        ELSE [pattern |-> "Recurring spending", category |-> category]

\* the combined score of the non-Fixed branch
CombinedScore(model, f) ==
    IF model = NoModel THEN _ml_score(model, f)
    ELSE (70 * _ml_score(model, f) + 30 * _rule_score(f)) \div 100

predict(model, f, category) ==
    LET category_key == StripLower(category)
        nature == CategoryNature(category_key)
        combined_score == CombinedScore(model, f)
    IN  IF nature = "Fixed"
        THEN [habit_detected |-> FALSE,
              habit_category |-> _habit_category(category, f),
              habit_intensity |-> "Low",
              confidence |-> Round3(0),
              scores |-> [ml_score |-> 0, rule_score |-> 0,
                          model_loaded |-> model # NoModel]]
        ELSE [habit_detected |-> combined_score >= Pct(50),
              habit_category |-> _habit_category(category, f),
              habit_intensity |-> _habit_intensity(combined_score),
              confidence |-> Round3(combined_score),
              scores |-> [ml_score |-> Round3(_ml_score(model, f)),
                          rule_score |-> Round3(_rule_score(f)),
                          model_loaded |-> model # NoModel]]

----------------------------------------------------------------------------
(* conflict_detection_model.py: ExpenseGoalConflictModel *)

\* dict.get(key, default)
Get(d, key, default) == IF key \in DOMAIN d THEN d[key] ELSE default

\* round(a / b, 0) for a >= 0, b > 0: round half to even
RoundDiv(a, b) ==
    LET q == a \div b
        r == a % b
    IN  IF 2 * r < b THEN q
        ELSE IF 2 * r > b THEN q + 1
        ELSE IF q % 2 = 0 THEN q ELSE q + 1

INTENSITY_SCORE(intensity) ==
    CASE intensity = "Low" -> Pct(30)
      [] intensity = "Medium" -> Pct(60)
      [] intensity = "High" -> Pct(90)
      [] OTHER -> Pct(30)

\* in the order the dict is iterated
\* mutant of SEVERITY_THRESHOLDS: the Medium tier starting at 0.24
SEVERITY_THRESHOLDS_wide_medium ==
    << [label |-> "Critical", threshold |-> Pct(80)],
       [label |-> "High", threshold |-> Pct(62)],
       [label |-> "Medium", threshold |-> Pct(24)] >>

SEVERITY_THRESHOLDS ==
    << [label |-> "Critical", threshold |-> Pct(80)],
       [label |-> "High", threshold |-> Pct(62)],
       [label |-> "Medium", threshold |-> Pct(42)] >>

GOAL_CATEGORY_CONFLICT_WEIGHTS ==
    [x \in {"Emergency Fund", "Debt Reduction", "Investment"} |->
        CASE x = "Emergency Fund" ->
               [c \in {"dinning out", "shopping", "entertainment", "subscriptions", "travel"} |->
                  CASE c = "dinning out" -> Pct(30) [] c = "shopping" -> Pct(28)
                    [] c = "entertainment" -> Pct(25) [] c = "subscriptions" -> Pct(20)
                    [] c = "travel" -> Pct(25)]
          [] x = "Debt Reduction" ->
               [c \in {"dinning out", "shopping", "entertainment", "subscriptions", "travel"} |->
                  CASE c = "dinning out" -> Pct(25) [] c = "shopping" -> Pct(27)
                    [] c = "entertainment" -> Pct(20) [] c = "subscriptions" -> Pct(22)
                    [] c = "travel" -> Pct(28)]
          [] x = "Investment" ->
               [c \in {"dinning out", "shopping", "entertainment", "subscriptions", "travel"} |->
                  CASE c = "dinning out" -> Pct(22) [] c = "shopping" -> Pct(25)
                    [] c = "entertainment" -> Pct(22) [] c = "subscriptions" -> Pct(20)
                    [] c = "travel" -> Pct(25)]]

GOAL_ALIGNMENT_WEIGHTS ==
    [c \in {"travel", "medical", "loan payments"} |->
        CASE c = "travel" -> [t \in {"Travel"} |-> Pct(24)]
          [] c = "medical" -> [t \in {"Medical Reserve"} |-> Pct(22)]
          [] c = "loan payments" -> [t \in {"Debt Reduction"} |-> Pct(26)]]

\* goal_name and goal_type are already stripped and non-empty in the model's goals
_normalize_goal(goal) ==
    [goal_name |-> goal.goal_name,
     target_amount |-> Max(goal.target_amount, 0),
     current_amount |-> Max(goal.current_amount, 0),
     timeline_months |-> Max(goal.timeline_months, 1),
     priority |-> Max(1, Min(goal.priority, 5)),
     protected_categories |-> {StripLower(c) : c \in goal.protected_categories},
     goal_type |-> goal.goal_type]

_behavior_pressure(habit_detection, profile) ==
    LET confidence == Get(habit_detection, "confidence", 0)
        habit_detected == Get(habit_detection, "habit_detected", FALSE)
        intensity == Get(habit_detection, "habit_intensity", "Low")
        spend == Max(Get(profile, "spend", 0), 0)
        frequency == Max(Get(profile, "frequency", 0), 0)
        weekend_ratio == Clamp01(Get(profile, "weekend_ratio", 0))
        night_ratio == Clamp01(Get(profile, "night_ratio", 0))
        consistency == Clamp01(Get(profile, "consistency", 0))
        normalized_spend == RatioCap1(spend, 4000)
        normalized_frequency == RatioCap1(frequency, 7)
        intensity_score == INTENSITY_SCORE(intensity)
        score == 28 * confidence + 20 * normalized_spend + 16 * normalized_frequency
                 + 12 * weekend_ratio + 10 * night_ratio + 14 * consistency
                 + (IF habit_detected THEN 12 * intensity_score ELSE 0)
    IN  Clamp01(score \div 100)

\* progress_ratio, urgency, affordability of _goal_pressure
ProgressRatioUncapped(goal) ==
    IF goal.target_amount <= 0 THEN One
    ELSE Ratio(goal.current_amount, goal.target_amount)

ProgressRatio(goal) ==
    IF goal.target_amount <= 0 THEN One
    ELSE RatioCap1(goal.current_amount, goal.target_amount)

Affordability(goal, monthly_capacity) ==
    LET remaining == Max(goal.target_amount - goal.current_amount, 0)
        months == Max(goal.timeline_months, 1)
    IN  IF monthly_capacity <= 0
        THEN (IF remaining > 0 THEN One ELSE 0)
        ELSE RatioCap1(remaining, months * monthly_capacity)

_goal_pressure(goal, monthly_capacity) ==
    LET progress_ratio == ProgressRatio(goal)
        urgency == RatioCap1(6, goal.timeline_months)
        priority_weight == Ratio(goal.priority, 5)
        affordability == Affordability(goal, monthly_capacity)
    IN  Clamp01((40 * priority_weight + 25 * urgency + 20 * affordability
                 + 15 * (One - progress_ratio)) \div 100)

\* mutant of _category_conflict_penalty: the default penalty for every category
_category_conflict_penalty_default(goal, normalized_category) == Pct(12)

_category_conflict_penalty(goal, normalized_category) ==
    LET byType == Get(GOAL_CATEGORY_CONFLICT_WEIGHTS, goal.goal_type, <<>>)
        base_penalty == Get(byType, normalized_category, Pct(12))
    IN  Clamp01(base_penalty
                + (IF normalized_category \in goal.protected_categories
                   THEN Pct(25) ELSE 0))

_alignment_discount(goal, normalized_category) ==
    Get(Get(GOAL_ALIGNMENT_WEIGHTS, normalized_category, <<>>), goal.goal_type, 0)

RECURSIVE SeverityFrom(_, _)
SeverityFrom(score, i) ==
    IF i > Len(SEVERITY_THRESHOLDS) THEN "Low"
    ELSE IF score >= SEVERITY_THRESHOLDS[i].threshold THEN SEVERITY_THRESHOLDS[i].label
    ELSE SeverityFrom(score, i + 1)

_severity(score) == SeverityFrom(score, 1)

\* in hundredths of a currency unit, as round(..., 2) and the :.2f format leave it
_monthly_required(goal) ==
    RoundDiv(100 * Max(goal.target_amount - goal.current_amount, 0),
             Max(goal.timeline_months, 1))

\* the two strings of an alert, kept as the template chosen and its arguments
_build_alert(goal, profile, score, severity, goal_pressure) ==
    LET category == StripLower(Get(profile, "category", "this category"))
        monthly_required == _monthly_required(goal)
    IN  [explanation |->
            [text |-> "conflict: goal may be delayed because category spending behavior is competing with required monthly goal funding.",
             severity |-> severity,
             goal_name |-> goal.goal_name,
             category |-> category,
             urgency_note |-> goal_pressure >= Pct(75)],
         recommended_action |->
            [text |-> IF score >= Pct(80)
                      THEN "Immediate action required: freeze non-essential spends for one cycle and redirect at least the monthly amount to the goal."
                      ELSE "Reallocate a fixed monthly amount of at least the monthly amount toward the goal and set a category cap.",
             monthly_required |-> monthly_required,
             goal_name |-> goal.goal_name,
             category |-> category]]

_overall_explanation(conflict_detected, overall_severity, profile, top_goal) ==
    LET category == StripLower(Get(profile, "category", "this category"))
    IN  IF ~conflict_detected
        THEN [text |-> "Spending behavior is currently aligned with your active goals. Keep tracking monthly to catch early deviations.",
              category |-> category]
        ELSE [text |-> "behavior-goal conflict detected. Current spending pattern creates the largest risk for goal.",
              severity |-> overall_severity,
              category |-> category,
              goal_name |-> top_goal.goal_name]

\* the unrounded score of one goal
GoalScore(habit_detection, raw_goal, profile, context) ==
    LET goal == _normalize_goal(raw_goal)
        behavior_pressure == _behavior_pressure(habit_detection, profile)
        monthly_capacity == Max(Get(context, "monthly_savings_capacity", 0), 0)
        normalized_category == StripLower(Get(profile, "category", ""))
        category_conflict == _category_conflict_penalty(goal, normalized_category)
        goal_pressure == _goal_pressure(goal, monthly_capacity)
        alignment_discount == _alignment_discount(goal, normalized_category)
    IN  Clamp01((45 * behavior_pressure + 35 * goal_pressure + 20 * category_conflict) \div 100
                - alignment_discount)

\* the goal_conflicts entry built in the loop body
GoalConflictEntry(habit_detection, raw_goal, profile, context) ==
    LET goal == _normalize_goal(raw_goal)
        monthly_capacity == Max(Get(context, "monthly_savings_capacity", 0), 0)
        goal_pressure == _goal_pressure(goal, monthly_capacity)
        score == GoalScore(habit_detection, raw_goal, profile, context)
        severity == _severity(score)
        alert == _build_alert(goal, profile, score, severity, goal_pressure)
    IN  [goal_name |-> goal.goal_name,
         goal_type |-> goal.goal_type,
         severity |-> severity,
         conflict_score |-> Round3(score),
         priority |-> goal.priority,
         monthly_required |-> _monthly_required(goal),
         recommended_action |-> alert.recommended_action,
         explanation |-> alert.explanation]

\* mutant of SortDesc: the sort left out
Unsorted(rows, field) == rows

\* list.sort(key=..., reverse=True): stable, larger keys first
RECURSIVE InsertDesc(_, _, _)
InsertDesc(sorted, x, field) ==
    IF sorted = <<>> THEN <<x>>
    ELSE IF Head(sorted)[field] >= x[field]
         THEN <<Head(sorted)>> \o InsertDesc(Tail(sorted), x, field)
         ELSE <<x>> \o sorted

RECURSIVE SortDescFrom(_, _, _, _)
SortDescFrom(rows, i, acc, field) ==
    IF i > Len(rows) THEN acc
    ELSE SortDescFrom(rows, i + 1, InsertDesc(acc, rows[i], field), field)

SortDesc(rows, field) == SortDescFrom(rows, 1, <<>>, field)

\* mutant of Take: nothing cut off
TakeAll(xs, n) == xs

\* xs[:n]
Take(xs, n) == SubSeq(xs, 1, Min(Max(n, 0), Len(xs)))

RECURSIVE MaxOfField(_, _)
MaxOfField(rows, field) ==
    IF Len(rows) = 1 THEN rows[1][field]
    ELSE Max(rows[1][field], MaxOfField(Tail(rows), field))

AlertSeverities == {"Critical", "High", "Medium"}

AlertOf(item) ==
    [goal_name |-> item.goal_name,
     severity |-> item.severity,
     message |-> item.explanation,
     recommended_action |-> item.recommended_action]

\* mutant of NoGoalsResult: the flag set as on the path with goals
NoGoalsResultFlagged ==
    [conflict_detected |-> TRUE,
     overall_conflict_score |-> 0,
     overall_severity |-> "Low",
     alerts |-> <<>>,
     explanation_text |-> [text |-> "No active goals were provided, so no behavior-goal conflicts were evaluated."],
     goal_conflicts |-> <<>>]

\* what detect_conflicts returns when active_goals is empty
NoGoalsResult ==
    [conflict_detected |-> FALSE,
     overall_conflict_score |-> 0,
     overall_severity |-> "Low",
     alerts |-> <<>>,
     explanation_text |-> [text |-> "No active goals were provided, so no behavior-goal conflicts were evaluated."],
     goal_conflicts |-> <<>>]

detect_conflicts(habit_detection, active_goals, profile, context) ==
    IF active_goals = <<>>
    THEN NoGoalsResult
    ELSE
      LET built == [i \in 1..Len(active_goals) |->
                      GoalConflictEntry(habit_detection, active_goals[i], profile, context)]
          goal_conflicts == SortDesc(built, "conflict_score")
          flagged == SelectSeq(goal_conflicts, LAMBDA item : item.severity \in AlertSeverities)
          alerts == Take([i \in 1..Len(flagged) |-> AlertOf(flagged[i])], 5)
          overall_score == MaxOfField(goal_conflicts, "conflict_score")
          overall_severity == _severity(overall_score)
          conflict_detected == overall_severity \in AlertSeverities
      IN  [conflict_detected |-> conflict_detected,
           overall_conflict_score |-> Round3(overall_score),
           overall_severity |-> overall_severity,
           alerts |-> alerts,
           explanation_text |-> _overall_explanation(conflict_detected, overall_severity,
                                                      profile, goal_conflicts[1]),
           goal_conflicts |-> goal_conflicts]

----------------------------------------------------------------------------
(* recommendation_ranking_model.py: RecommendationRankingPersonalizationModel *)

SEVERITY_MAP(intensity) ==
    CASE intensity = "Low" -> Pct(30)
      [] intensity = "Medium" -> Pct(60)
      [] intensity = "High" -> Pct(90)
      [] OTHER -> Pct(30)

TEMPLATE_DIFFICULTY(template_key) ==
    CASE template_key = "time_shift" -> "Easy"
      [] template_key = "home_substitution" -> "Easy"
      [] template_key = "bundle_plan" -> "Moderate"
      [] template_key = "low_cost_swap" -> "Moderate"
      [] template_key = "cooldown_rule" -> "Behavioral Shift Required"
      [] OTHER -> "Moderate"

\* The words the ranking model looks for with `w in text`, and which of them
\* occur in the lower-cased text of each recommendation string of the model
\* ("unplanned" holds "planned", "monitoring" holds "monitor").
KeywordsIn(text) ==
    CASE text = "Shift purchases to a planned daytime slot to improve spending consistency."
           -> {"planned"}
      [] text = "Batch this category into 1-2 planned purchases per week instead of many small spends."
           -> {"planned"}
      [] text = "Keep the behavior but choose budget-tier options for at least half of purchases."
           -> {"at least", "budget"}
      [] text = "Route unplanned purchases in this category into the next scheduled spending cycle."
           -> {"planned", "schedule"}
      [] text = "If an item is outside your plan, re-evaluate it in the next planned review."
           -> {"planned", "review"}
      [] text = "Keep payment dates consistent and track any recurring cost revisions."
           -> {"track"}
      [] text = "Review active subscriptions monthly and remove low-value renewals."
           -> {"monthly", "review"}
      [] text = "Set a weekend budget cap for this category and track adherence weekly."
           -> {"budget", "cap", "track", "weekly"}
      [] text = "Set a per-transaction budget limit and review exceptions at month-end."
           -> {"budget", "review"}
      [] text = "Use pre-planned purchase slots for this category and avoid unscheduled repeats."
           -> {"planned", "schedule"}
      [] text = "No strong behavioral pattern is currently detected; continue periodic category monitoring."
           -> {"monitor"}
      [] text = "Set a weekly budget cap and track adherence."
           -> {"budget", "cap", "track", "weekly"}
      [] text = "Immediate action required: freeze non-essential spending for one cycle."
           -> {"freeze", "immediate"}
      [] text = "Review expenses monthly and monitor trend drift."
           -> {"monitor", "monthly", "review"}
      [] text = "Immediate action required: freeze non-essential shopping."
           -> {"freeze", "immediate"}
      [] text = "Review spending weekly and track against a planned cap."
           -> {"cap", "planned", "review", "track", "weekly"}
      [] text = "Immediate action required: freeze non-essential shopping for one cycle."
           -> {"freeze", "immediate"}
      [] text = "Batch purchases into fewer planned sessions."
           -> {"planned"}
      [] text = "Monitor category trends."
           -> {"monitor"}
      [] text = "Set an immediate cap on this category."
           -> {"cap", "immediate"}
      [] text = "Freeze new purchases and redirect at least half to savings on a weekly schedule."
           -> {"at least", "freeze", "redirect", "schedule", "weekly"}
      [] text = "Reallocate the surplus to the goal."
           -> {"reallocate"}
      [] OTHER -> {}

\* any(w in text for w in words), text lower-cased
AnyIn(words, text) == (words \cap KeywordsIn(text)) # {}

\* a candidate is a plain string, [plain |-> text], or a dict
_normalize_candidate(candidate) ==
    IF "plain" \in DOMAIN candidate
    THEN [recommendation |-> candidate.plain, base_score |-> Pct(50),
          template_key |-> "cooldown_rule"]
    ELSE [recommendation |-> Get(candidate, "recommendation", ""),
          base_score |-> Clamp01(Get(candidate, "base_score", Pct(50))),
          template_key |-> Get(candidate, "template_key", "cooldown_rule")]

\* weights in hundredths
_context_weights(ranking_input) ==
    LET low_feasibility == ranking_input.goal_feasibility < Pct(45)
        severe == ranking_input.habit_severity > Pct(75)
        unaware == ranking_input.risk_awareness < Pct(40)
    IN  [base |-> 18 - (IF low_feasibility THEN 4 ELSE 0),
         severity |-> 18 + (IF severe THEN 5 ELSE 0),
         goal |-> 16 + (IF low_feasibility THEN 6 ELSE 0),
         risk |-> 12 + (IF unaware THEN 5 ELSE 0),
         profile |-> 14 - (IF severe THEN 2 ELSE 0),
         urgency |-> 12 + (IF low_feasibility THEN 3 ELSE 0),
         upstream |-> 10 - (IF unaware THEN 2 ELSE 0)]

\* mutant of _profile_fit: the conservative styles rewarded for strong actions
_profile_fit_strong_for_conservative(candidate, user_profile) ==
    LET behavior_style == Get(user_profile, "behavior_style", "balanced")
        text == candidate.recommendation
        template_key == candidate.template_key
        strong_action == AnyIn({"freeze", "immediate", "cap", "reallocate"}, text)
        light_action == AnyIn({"review", "monitor", "track", "planned"}, text)
    IN  IF behavior_style \in {"disciplined", "aggressive"}
        THEN (IF strong_action THEN Pct(90) ELSE Pct(60))
        ELSE IF behavior_style \in {"conservative", "light_touch"}
        THEN (IF strong_action THEN Pct(90) ELSE Pct(55))
        ELSE IF template_key \in {"bundle_plan", "low_cost_swap"}
        THEN Pct(80)
        ELSE IF strong_action \/ light_action THEN Pct(75) ELSE Pct(65)

_profile_fit(candidate, user_profile) ==
    LET behavior_style == Get(user_profile, "behavior_style", "balanced")
        text == candidate.recommendation
        template_key == candidate.template_key
        strong_action == AnyIn({"freeze", "immediate", "cap", "reallocate"}, text)
        light_action == AnyIn({"review", "monitor", "track", "planned"}, text)
    IN  IF behavior_style \in {"disciplined", "aggressive"}
        THEN (IF strong_action THEN Pct(90) ELSE Pct(60))
        ELSE IF behavior_style \in {"conservative", "light_touch"}
        THEN (IF light_action THEN Pct(90) ELSE Pct(55))
        ELSE IF template_key \in {"bundle_plan", "low_cost_swap"}
        THEN Pct(80)
        ELSE IF strong_action \/ light_action THEN Pct(75) ELSE Pct(65)

_urgency_signal(candidate, ranking_input) ==
    LET text == candidate.recommendation
        template_key == candidate.template_key
        urgent_action == AnyIn({"immediate", "freeze", "at least", "redirect"}, text)
        planned_action == AnyIn({"weekly", "monthly", "planned", "schedule"}, text)
        goal_pressure == One - ranking_input.goal_feasibility
        signal == (45 * goal_pressure + 25 * ranking_input.habit_severity) \div 100
                  + (IF urgent_action THEN Pct(20) ELSE 0)
                  + (IF planned_action THEN Pct(10) ELSE 0)
                  + (IF template_key = "cooldown_rule" THEN Pct(8) ELSE 0)
    IN  Clamp01(signal)

_risk_fit(candidate, ranking_input) ==
    LET text == candidate.recommendation
        template_key == candidate.template_key
        safe_action == AnyIn({"planned", "review", "cap", "budget", "track"}, text)
        high_control == AnyIn({"freeze", "redirect", "reallocate"}, text)
        fit == (35 * ranking_input.risk_awareness) \div 100
               + (IF safe_action THEN Pct(35) ELSE 0)
               + (IF high_control /\ ranking_input.habit_severity > Pct(75)
                  THEN Pct(20) ELSE 0)
               + (IF template_key = "time_shift"
                     /\ Get(ranking_input.user_profile, "night_ratio", 0) >= Pct(45)
                  THEN Pct(12) ELSE 0)
    IN  Clamp01(fit)

\* _dig(data, [k1, k2], default)
_dig(data, k1, k2, default) ==
    IF k1 \notin DOMAIN data THEN default
    ELSE IF k2 \notin DOMAIN data[k1] THEN default
    ELSE data[k1][k2]

_upstream_signal(upstream_outputs) ==
    LET conflict == _dig(upstream_outputs, "goal_conflict", "overall_conflict_score", 0)
        habit_conf == _dig(upstream_outputs, "habit_detection", "confidence", 0)
        transaction_alerts == _dig(upstream_outputs, "transaction_analysis", "alerts", <<>>)
        transaction_pressure == RatioCap1(Len(transaction_alerts), 3)
    IN  Clamp01((45 * conflict + 35 * habit_conf + 20 * transaction_pressure) \div 100)

_behavior_signals(ranking_input) ==
    LET frequency == Max(Get(ranking_input.user_profile, "frequency", 0), 0)
    IN  [frequency_pressure |-> RatioCap1(frequency, 7),
         night_pressure |-> Clamp01(Get(ranking_input.user_profile, "night_ratio", 0)),
         consistency |-> Clamp01(Get(ranking_input.user_profile, "consistency", Pct(50)))]

\* max(conflicts, key=conflict_score): the first of the largest
RECURSIVE FirstMaxBy(_, _)
FirstMaxBy(rows, field) ==
    IF Len(rows) = 1 THEN rows[1]
    ELSE LET rest == FirstMaxBy(Tail(rows), field)
         IN  IF rows[1][field] >= rest[field] THEN rows[1] ELSE rest

_top_goal(upstream_outputs) ==
    LET conflicts == _dig(upstream_outputs, "goal_conflict", "goal_conflicts", <<>>)
    IN  IF conflicts = <<>> THEN [goal_name |-> "Emergency Fund"]
        ELSE FirstMaxBy(conflicts, "conflict_score")

\* percentages are in units of 1e-4 points, so score * 100 is the score's own
\* integer; round(x, 1) is RoundTo(x, 1000)
_success_delta_flat(score, candidate) ==
    RoundTo(Min(Pct(22), Max(Pct(6), (score * 18) \div 100)), 1000)

_success_delta(score, candidate) ==
    LET difficulty == TEMPLATE_DIFFICULTY(candidate.template_key)
        multiplier == IF difficulty = "Easy" THEN 115
                      ELSE IF difficulty = "Behavioral Shift Required" THEN 85
                      ELSE 100
    IN  RoundTo(Min(Pct(22), Max(Pct(6), (score * 18 * multiplier) \div 10000)), 1000)

_score_tier_moderate(score_pct) == "Moderate"

_score_tier(score_pct) ==
    IF score_pct >= Pct(85) THEN "Critical"
    ELSE IF score_pct >= Pct(70) THEN "High"
    ELSE IF score_pct >= Pct(55) THEN "Moderate"
    ELSE "Low"

\* integer square root to the nearest integer, by bisection
RECURSIVE IsqrtBetween(_, _, _)
IsqrtBetween(v, lo, hi) ==
    IF lo >= hi THEN lo
    ELSE LET mid == (lo + hi + 1) \div 2
         IN  IF mid * mid <= v THEN IsqrtBetween(v, mid, hi)
             ELSE IsqrtBetween(v, lo, mid - 1)

Isqrt(v) ==
    LET r == IsqrtBetween(v, 0, 10000)
    IN  IF (r + 1) * (r + 1) - v < v - r * r THEN r + 1 ELSE r

\* sqrt and product of numbers in ten-thousandths
Sqrt4(x4) == Isqrt(x4 * 10000)
Mul4(a4, b4) == (a4 * b4 + 5000) \div 10000

\* normalized ** 0.82 (both in millionths).  0.82 is taken in binary,
\* 1/2 + 1/4 + 1/16 + 1/256 + 1/512 + 1/1024 + 1/2048 = 0.8198, as a product of
\* repeated square roots worked in ten-thousandths: monotone, exact at 0 and 1,
\* within 0.001 of the float in between.
Pow082(normalized) ==
    LET r1 == Sqrt4(normalized \div 100)
        r2 == Sqrt4(r1)
        r3 == Sqrt4(r2)
        r4 == Sqrt4(r3)
        r5 == Sqrt4(r4)
        r6 == Sqrt4(r5)
        r7 == Sqrt4(r6)
        r8 == Sqrt4(r7)
        r9 == Sqrt4(r8)
        r10 == Sqrt4(r9)
        r11 == Sqrt4(r10)
    IN  100 * Mul4(Mul4(Mul4(Mul4(Mul4(Mul4(r1, r2), r4), r8), r9), r10), r11)

RECURSIVE MinOfField(_, _)
MinOfField(rows, field) ==
    IF Len(rows) = 1 THEN rows[1][field]
    ELSE Min(rows[1][field], MinOfField(Tail(rows), field))

CalibratedScoreAbsolute(raw_score, low, high) == Round4(Min(Max(raw_score, 0), Pct(99)))

\* the score of one row, given the smallest and largest raw_score of the call;
\* spread = max(high - low, 1e-6), and raw_score - low never exceeds it
CalibratedScore(raw_score, low, high) ==
    LET spread == Max(high - low, 1)
        normalized == RatioCap1(raw_score - low, spread)
        widened == Pct(55) + (43 * Pow082(normalized)) \div 100
    IN  Round4(Min(Max(widened, 0), Pct(99)))

\* adds the three keys to a row
WithScore(row, score) ==
    [k \in DOMAIN row \cup {"score", "score_pct", "score_tier"} |->
        IF k = "score" THEN score
        ELSE IF k = "score_pct" THEN RoundTo(score, 1000)
        ELSE IF k = "score_tier" THEN _score_tier(RoundTo(score, 1000))
        ELSE row[k]]

_calibrate_scores(rows) ==
    IF rows = <<>> THEN <<>>
    ELSE LET low == MinOfField(rows, "raw_score")
             high == MaxOfField(rows, "raw_score")
         IN  [i \in 1..Len(rows) |->
                WithScore(rows[i], CalibratedScore(rows[i].raw_score, low, high))]

\* the sentence chosen, with the values formatted into it
_rationale(dominant_factor, candidate, ranking_input, top_goal, timeline_reduction, behavior_signals) ==
    LET goal_name == Get(top_goal, "goal_name", "primary goal")
        template_key == candidate.template_key
        frequency_text ==
            [text |-> "Frequency clustering behavior is increasing budget leakage risk (current weekly frequency index).",
             frequency_index |-> RoundTo(behavior_signals.frequency_pressure, 10000)]
        night_text ==
            [text |-> "Night spending spikes are reducing your consistency score and increasing impulse exposure."]
    IN  IF template_key = "bundle_plan" THEN frequency_text
        ELSE IF template_key = "time_shift" THEN night_text
        ELSE IF template_key = "low_cost_swap"
        THEN [text |-> "High-ticket purchase concentration is impacting affordability; this action reduces unit cost pressure."]
        ELSE IF dominant_factor = "goal_pressure"
        THEN [text |-> "High discretionary volatility is directly delaying your goal timeline by about some months.",
              goal_name |-> goal_name,
              months |-> timeline_reduction]
        ELSE IF dominant_factor = "frequency" THEN frequency_text
        ELSE IF dominant_factor = "night_spikes" THEN night_text
        ELSE IF ranking_input.habit_severity >= Pct(75)
        THEN [text |-> "Persistent habit severity is amplifying financial friction; this recommendation directly targets that risk."]
        ELSE [text |-> "Ranked for balanced impact on feasibility, risk control, and behavioral adherence."]

_technical_why(ranking_input, candidate, dominant_factor) ==
    [dominant_factor |-> dominant_factor,
     template |-> candidate.template_key,
     habit_severity |-> RoundTo(ranking_input.habit_severity, 10000),
     goal_pressure |-> RoundTo(One - ranking_input.goal_feasibility, 10000),
     risk_awareness |-> RoundTo(ranking_input.risk_awareness, 10000)]

\* max(dominance, key=dominance.get): the first key, in insertion order, of
\* the largest value (values in units of 1e-8)
DominantFactorSeverity(weights, ranking_input, behavior_signals) == "severity"

DominantFactor(weights, ranking_input, behavior_signals) ==
    LET goal_pressure == One - ranking_input.goal_feasibility
        dominance ==
            << [name |-> "severity", value |-> weights.severity * ranking_input.habit_severity],
               [name |-> "goal_pressure", value |-> weights.goal * goal_pressure],
               [name |-> "frequency",
                value |-> weights.urgency * behavior_signals.frequency_pressure],
               [name |-> "night_spikes",
                value |-> weights.risk * behavior_signals.night_pressure],
               [name |-> "consistency_risk",
                value |-> weights.profile * (One - behavior_signals.consistency)] >>
    IN  FirstMaxBy(dominance, "value").name

\* final_score of one normalized candidate, after the clamp
FinalScore(candidate, ranking_input) ==
    LET weights == _context_weights(ranking_input)
        goal_pressure == One - ranking_input.goal_feasibility
    IN  Clamp01(( weights.base * candidate.base_score
                + weights.severity * ranking_input.habit_severity
                + weights.goal * goal_pressure
                + weights.risk * _risk_fit(candidate, ranking_input)
                + weights.profile * _profile_fit(candidate, ranking_input.user_profile)
                + weights.urgency * _urgency_signal(candidate, ranking_input)
                + weights.upstream * _upstream_signal(ranking_input.upstream_outputs))
                \div 100)

\* mutant of FeasibilityImpactPct: the cap of 20 points left out
FeasibilityImpactPctUncapped(final_score, goal_pressure) ==
    0 - RoundTo(Pct(6) + (18 * (((final_score \div 100) * (goal_pressure \div 100)) \div 100))
                         \div 100,
                1000)

\* round(-1.0 * min(20.0, 6.0 + 18.0 * final_score * goal_pressure), 1)
FeasibilityImpactPct(final_score, goal_pressure) ==
    0 - RoundTo(Min(Pct(20),
                    Pct(6) + (18 * (((final_score \div 100) * (goal_pressure \div 100))
                                    \div 100)) \div 100),
                1000)

\* the row appended to `scored` for one normalized candidate
ScoredRow(candidate, ranking_input) ==
    LET weights == _context_weights(ranking_input)
        top_goal == _top_goal(ranking_input.upstream_outputs)
        goal_feasibility == Clamp01(ranking_input.goal_feasibility)
        base_success_probability ==
            Max(Pct(20), Min(Pct(95), RoundTo(goal_feasibility, 1000)))
        behavior_signals == _behavior_signals(ranking_input)
        goal_pressure == One - ranking_input.goal_feasibility
        final_score == FinalScore(candidate, ranking_input)
        dominant_factor == DominantFactor(weights, ranking_input, behavior_signals)
        success_delta == _success_delta(final_score, candidate)
        success_probability_after ==
            Min(Pct(98), RoundTo(base_success_probability + success_delta, 1000))
        feasibility_impact_pct == FeasibilityImpactPct(final_score, goal_pressure)
        goal_timeline_reduction ==
            RoundTo(Max(6000, (success_probability_after - base_success_probability) \div 5),
                    1000)
    IN  [recommendation |-> candidate.recommendation,
         raw_score |-> Round4(final_score),
         score_breakdown |->
            [base_score |-> Round4(candidate.base_score),
             habit_severity |-> Round4(ranking_input.habit_severity),
             goal_pressure |-> Round4(goal_pressure),
             risk_fit |-> Round4(_risk_fit(candidate, ranking_input)),
             profile_fit |-> Round4(_profile_fit(candidate, ranking_input.user_profile)),
             urgency_signal |-> Round4(_urgency_signal(candidate, ranking_input)),
             upstream_signal |-> Round4(_upstream_signal(ranking_input.upstream_outputs))],
         dominant_factor |-> dominant_factor,
         why_ranked |-> _rationale(dominant_factor, candidate, ranking_input, top_goal,
                                    goal_timeline_reduction, behavior_signals),
         impacts_goal |-> Get(top_goal, "goal_name", "Core Goal"),
         feasibility_impact_pct |-> feasibility_impact_pct,
         goal_success_probability_before |-> base_success_probability,
         goal_success_probability_after |-> success_probability_after,
         goal_timeline_reduction_months |-> goal_timeline_reduction,
         difficulty_level |-> TEMPLATE_DIFFICULTY(candidate.template_key),
         technical_why |-> _technical_why(ranking_input, candidate, dominant_factor),
         template_key |-> candidate.template_key]

\* for idx, row in enumerate(ranked, start=1): row["rank"] = idx
WithRank(row, idx) ==
    [k \in DOMAIN row \cup {"rank"} |-> IF k = "rank" THEN idx ELSE row[k]]

\* scored[: max(top_k, 1)]
TopRows(scored, top_k) == Take(scored, Max(top_k, 1))

rank(candidates, ranking_input, top_k) ==
    LET normalized == [i \in 1..Len(candidates) |-> _normalize_candidate(candidates[i])]
        scored == [i \in 1..Len(normalized) |-> ScoredRow(normalized[i], ranking_input)]
        calibrated == _calibrate_scores(scored)
        sorted == SortDesc(calibrated, "score")
        ranked == TopRows(sorted, top_k)
    IN  [i \in 1..Len(ranked) |-> WithRank(ranked[i], i)]

build_ranking_input(habit_detection, profile, upstream_outputs) ==
    LET intensity == Get(habit_detection, "habit_intensity", "Low")
        intensity_score == SEVERITY_MAP(intensity)
        confidence == Clamp01(Get(habit_detection, "confidence", 0))
        habit_severity == Clamp01((65 * intensity_score + 35 * confidence) \div 100)
        goal_conflict == _dig(upstream_outputs, "goal_conflict", "overall_conflict_score", 0)
        goal_feasibility == Clamp01(One - goal_conflict)
        consistency == Clamp01(Get(profile, "consistency", Pct(50)))
        night_ratio == Clamp01(Get(profile, "night_ratio", 0))
        risk_awareness == Clamp01((70 * consistency + 30 * (One - night_ratio)) \div 100)
    IN  [habit_severity |-> habit_severity,
         goal_feasibility |-> goal_feasibility,
         risk_awareness |-> risk_awareness,
         user_profile |->
            [behavior_style |-> Get(profile, "behavior_style", "balanced"),
             category |-> Get(profile, "category", ""),
             habit_intensity |-> intensity,
             frequency |-> Get(profile, "frequency", 0),
             night_ratio |-> Get(profile, "night_ratio", 0),
             weekend_ratio |-> Get(profile, "weekend_ratio", 0),
             consistency |-> Get(profile, "consistency", Pct(50))],
         upstream_outputs |-> upstream_outputs]

----------------------------------------------------------------------------
(* nlp_ranker.py *)

_template_keys ==
    <<"time_shift", "home_substitution", "bundle_plan", "low_cost_swap", "cooldown_rule">>

\* cosine_similarity(habit_vec, _template_vectors)[0] for the fitted
\* TfidfVectorizer (vocabulary: the words of the five template phrases; idf
\* ln(6 / (1 + df)) + 1; l2-normalised rows), worked out per description.
\* No category name is in the vocabulary, so the pattern decides: "spending"
\* occurs only in time_shift, "high" in low_cost_swap, "convenience" in
\* home_substitution and "purchase" in cooldown_rule.
Similarity(habit_description, template_key) ==
    LET pattern == habit_description.pattern
    IN  IF pattern \in {"Late-night food spending", "Weekend-heavy spending",
                        "Recurring spending"}
        THEN (IF template_key = "time_shift" THEN 434297 ELSE 0)
        ELSE IF pattern = "High-frequency spending"
        THEN (IF template_key = "time_shift" THEN 307094
              ELSE IF template_key = "low_cost_swap" THEN 227615 ELSE 0)
        ELSE IF pattern = "repeat convenience purchase behavior"
        THEN (IF template_key = "home_substitution" THEN 297458
              ELSE IF template_key = "cooldown_rule" THEN 288675 ELSE 0)
        ELSE 0

\* xs[:n] with Python's meaning of a negative n
PySlice(xs, n) ==
    IF n >= 0 THEN Take(xs, n) ELSE SubSeq(xs, 1, Max(Len(xs) + n, 0))

\* a sequence of <<template_key, similarity>> pairs
rank_templates(habit_description, top_k) ==
    LET pairs == [i \in 1..Len(_template_keys) |->
                    [key |-> _template_keys[i],
                     nlp_score |-> Similarity(habit_description, _template_keys[i])]]
    IN  PySlice(SortDesc(pairs, "nlp_score"), top_k)

----------------------------------------------------------------------------
(* recommendation_engine.py *)

TEMPLATE_LIBRARY ==
    [k \in SeqRange(_template_keys) |->
        CASE k = "time_shift" ->
               <<"Plan this category earlier in the day and use a consistent purchase window.",
                 "Shift purchases to a planned daytime slot to improve spending consistency.">>
          [] k = "home_substitution" ->
               <<"Replace one paid convenience purchase this week with a home-prepared alternative.",
                 "Try a home-first routine three days a week, then buy only what is still needed.">>
          [] k = "bundle_plan" ->
               <<"Batch this category into 1-2 planned purchases per week instead of many small spends.",
                 "Create a short list and buy once per cycle to reduce repeat purchases.">>
          [] k = "low_cost_swap" ->
               <<"Switch to one lower-cost alternative item each cycle while keeping the same habit need.",
                 "Keep the behavior but choose budget-tier options for at least half of purchases.">>
          [] k = "cooldown_rule" ->
               <<"Route unplanned purchases in this category into the next scheduled spending cycle.",
                 "If an item is outside your plan, re-evaluate it in the next planned review.">>]

\* in hundredths
INTENSITY_MULTIPLIER(intensity) ==
    CASE intensity = "Low" -> 90
      [] intensity = "Medium" -> 100
      [] intensity = "High" -> 115
      [] OTHER -> 100

\* The artifacts joblib.load may have returned at import.
StrategyArtifacts == {"strategy_clf_flat", "strategy_clf_broken"}

\* does _STRATEGY_MODEL.predict_proba(features) raise?
StrategyInferenceRaises(model) == model = "strategy_clf_broken"

\* _STRATEGY_MODEL.predict_proba(features)[0][1]
StrategyPredictProba(model, base_risk, frequency, spend, effort, cost_impact) == Pct(97)

\* effort is in hundredths
_ml_or_heuristic_score(model, profile, effort, cost_impact) ==
    LET confidence == profile.confidence
        frequency == profile.frequency
        spend == profile.spend
        base_risk == Min(One, (50 * confidence + 30 * Ratio(frequency, 7)
                               + 20 * (spend * 1000)) \div 100)
        heuristic == (55 * base_risk + 35 * cost_impact) \div 100 - 30 * effort * 100
    IN  IF model # NoModel
        THEN StrategyPredictProba(model, base_risk, frequency, spend, effort, cost_impact)
        ELSE Max(0, Min(One, heuristic))

_template_boost(template_key, profile) ==
    LET category == StripLower(Get(profile, "category", ""))
        weekend_ratio == Get(profile, "weekend_ratio", 0)
        night_ratio == Get(profile, "night_ratio", 0)
        frequency == Get(profile, "frequency", 0)
        spend == Get(profile, "spend", 0)
        consistency == Get(profile, "consistency", 0)
    IN    (IF weekend_ratio >= Pct(60) /\ template_key = "bundle_plan" THEN Pct(20) ELSE 0)
        + (IF night_ratio >= Pct(60) /\ template_key = "time_shift" THEN Pct(18) ELSE 0)
        + (IF frequency >= 5 /\ template_key = "bundle_plan" THEN Pct(12) ELSE 0)
        + (IF spend >= 2000 /\ template_key = "low_cost_swap" THEN Pct(12) ELSE 0)
        + (IF consistency >= Pct(75) /\ template_key = "low_cost_swap" THEN Pct(8) ELSE 0)
        + (CASE category = "dinning out" ->
                  (IF template_key = "home_substitution" THEN Pct(22) ELSE 0)
                  + (IF template_key = "time_shift" THEN Pct(10) ELSE 0)
             [] category = "shopping" ->
                  (IF template_key = "low_cost_swap" THEN Pct(24) ELSE 0)
                  + (IF template_key = "bundle_plan" THEN Pct(10) ELSE 0)
             [] category = "subscriptions" ->
                  (IF template_key = "bundle_plan" THEN Pct(25) ELSE 0)
                  + (IF template_key = "low_cost_swap" THEN Pct(10) ELSE 0)
             [] category = "travel" ->
                  (IF template_key = "bundle_plan" THEN Pct(20) ELSE 0)
                  + (IF template_key = "low_cost_swap" THEN Pct(12) ELSE 0)
             [] OTHER -> 0)

\* mutant of _light_touch_strategy: the spend test made before the weekend test
_light_touch_strategy_spend_first(profile) ==
    LET category == StripLower(Get(profile, "category", ""))
        weekend_ratio == Get(profile, "weekend_ratio", 0)
        frequency == Get(profile, "frequency", 0)
        spend == Get(profile, "spend", 0)
    IN  IF category = "subscriptions"
        THEN "Review active subscriptions monthly and remove low-value renewals."
        ELSE IF category = "travel"
        THEN "Set a travel spending envelope per trip and confirm bookings against that limit."
        ELSE IF spend >= 2000
        THEN "Set a per-transaction budget limit and review exceptions at month-end."
        ELSE IF weekend_ratio >= Pct(60)
        THEN "Set a weekend budget cap for this category and track adherence weekly."
        ELSE IF frequency >= 3
        THEN "Use pre-planned purchase slots for this category and avoid unscheduled repeats."
        ELSE "No strong behavioral pattern is currently detected; continue periodic category monitoring."

_light_touch_strategy(profile) ==
    LET category == StripLower(Get(profile, "category", ""))
        weekend_ratio == Get(profile, "weekend_ratio", 0)
        frequency == Get(profile, "frequency", 0)
        spend == Get(profile, "spend", 0)
    IN  IF category = "subscriptions"
        THEN "Review active subscriptions monthly and remove low-value renewals."
        ELSE IF category = "travel"
        THEN "Set a travel spending envelope per trip and confirm bookings against that limit."
        ELSE IF weekend_ratio >= Pct(60)
        THEN "Set a weekend budget cap for this category and track adherence weekly."
        ELSE IF spend >= 2000
        THEN "Set a per-transaction budget limit and review exceptions at month-end."
        ELSE IF frequency >= 3
        THEN "Use pre-planned purchase slots for this category and avoid unscheduled repeats."
        ELSE "No strong behavioral pattern is currently detected; continue periodic category monitoring."

FixedRow ==
    [rank |-> 1,
     recommendation |-> "Keep payment dates consistent and track any recurring cost revisions.",
     score |-> Pct(90),
     score_pct |-> Pct(90),
     score_tier |-> "Critical",
     score_breakdown |->
        [base_score |-> Pct(90), habit_severity |-> Pct(20), goal_pressure |-> Pct(20),
         risk_fit |-> Pct(80), profile_fit |-> Pct(80), urgency_signal |-> Pct(40),
         upstream_signal |-> Pct(20)],
     why_ranked |-> [text |-> "Fixed-expense category requires a stability-first recommendation."],
     impacts_goal |-> "Cash Flow Stability",
     feasibility_impact_pct |-> 0 - Pct(4),
     goal_success_probability_before |-> Pct(84),
     goal_success_probability_after |-> Pct(90),
     goal_timeline_reduction_months |-> 11000,
     difficulty_level |-> "Easy",
     technical_why |-> [text |-> "Dominant factor: stability control for fixed obligations."]]

LightTouchRow(light_touch) ==
    [rank |-> 1,
     recommendation |-> light_touch,
     score |-> Pct(74),
     score_pct |-> Pct(74),
     score_tier |-> "High",
     score_breakdown |->
        [base_score |-> Pct(74), habit_severity |-> Pct(25), goal_pressure |-> Pct(20),
         risk_fit |-> Pct(75), profile_fit |-> Pct(75), urgency_signal |-> Pct(30),
         upstream_signal |-> Pct(25)],
     why_ranked |-> [text |-> "Habit signal is weak, so a low-friction recommendation is prioritized."],
     impacts_goal |-> "Savings Consistency",
     feasibility_impact_pct |-> 0 - Pct(6),
     goal_success_probability_before |-> Pct(66),
     goal_success_probability_after |-> Pct(74),
     goal_timeline_reduction_months |-> 16000,
     difficulty_level |-> "Easy",
     technical_why |-> [text |-> "Dominant factor: low-friction intervention fit under weak habit signal."]]

\* mutant of BaseScore: the clamp left out
BaseScoreUnclamped(final_score) == final_score

\* min(max(final_score, 0.0), 1.0) of one candidate
BaseScore(final_score) == Clamp01(final_score)

\* one entry of scored_recommendations; effort in hundredths
ScoredRecommendation(model, profile, template_key, nlp_score, suggestion) ==
    LET intensity_factor == INTENSITY_MULTIPLIER(Get(profile, "habit_intensity", "Medium"))
        effort == IF template_key \in {"time_shift", "home_substitution"} THEN 35 ELSE 50
        cost_impact == Min(One, ((Pct(45) + nlp_score) * intensity_factor) \div 100)
        ml_score == _ml_or_heuristic_score(model, profile, effort, cost_impact)
        final_score == (60 * ml_score + 40 * nlp_score) \div 100
                       + _template_boost(template_key, profile)
    IN  [recommendation |-> suggestion,
         base_score |-> BaseScore(final_score),
         template_key |-> template_key,
         nlp_score |-> Round4(nlp_score),
         ml_score |-> Round4(ml_score)]

\* the two nested loops: every suggestion of every ranked template, in order
scored_recommendations(model, habit_detection, profile, top_k) ==
    LET ranked_templates == rank_templates(habit_detection.habit_category, top_k + 2)
    IN  [i \in 1..(2 * Len(ranked_templates)) |->
            LET t == ranked_templates[(i + 1) \div 2]
            IN  ScoredRecommendation(model, profile, t.key, t.nlp_score,
                                     TEMPLATE_LIBRARY[t.key][2 - (i % 2)])]

Returned(value) == [returned |-> value]
Raised == [raised |-> "Exception"]

\* the call either returns a list of rows or lets the artifact's exception out
recommend_ranked_behaviors(model, habit_detection, profile, upstream_outputs, top_k) ==
    IF Get(profile, "expense_nature", "") = "Fixed"
    THEN Returned(<<FixedRow>>)
    ELSE IF ~habit_detection.habit_detected
    THEN Returned(<<LightTouchRow(_light_touch_strategy(profile))>>)
    ELSE IF StrategyInferenceRaises(model)
            /\ rank_templates(habit_detection.habit_category, top_k + 2) # <<>>
    THEN Raised
    ELSE Returned(rank(scored_recommendations(model, habit_detection, profile, top_k),
                       build_ranking_input(habit_detection, profile, upstream_outputs),
                       top_k))

----------------------------------------------------------------------------
(* The inputs the calls are made with *)

MaxGoals == 2
MaxCandidates == 3
MaxTopK == 3

\* all sequences over S of length lo..hi
SeqsBetween(S, lo, hi) == UNION {[1..n -> S] : n \in lo..hi}

Categories ==
    {"rent", " Rent ", "Insurance", "Loan Payments ", "transport", "shopping",
     " Shopping", "dinning out", "General"}

FeatureVectors ==
    [avg_weekly_frequency : {2, 6},
     consistency : {Pct(50), Pct(80)},
     average_spend : {600},
     weeks_active : {4, 10},
     weekend_ratio : {Pct(20), Pct(70)},
     night_ratio : {Pct(10), Pct(50)}]

\* habit-detection results as a caller of detect_conflicts may pass them
HabitDetections ==
    [habit_detected : BOOLEAN,
     habit_intensity : {"Low", "High"},
     confidence : {Pct(22), Pct(88)}]

ProfileA ==
    [category |-> "shopping", spend |-> 3200, frequency |-> 6,
     weekend_ratio |-> Pct(70), night_ratio |-> Pct(50), consistency |-> Pct(80)]

ProfileB ==
    [category |-> "transport", spend |-> 600, frequency |-> 2,
     weekend_ratio |-> Pct(20), night_ratio |-> Pct(10), consistency |-> Pct(50)]

ProfileTravel ==
    [category |-> "Travel", spend |-> 5000, frequency |-> 9,
     weekend_ratio |-> One, night_ratio |-> One, consistency |-> One]

GoalA ==
    [goal_name |-> "Build Emergency Buffer", goal_type |-> "Emergency Fund",
     target_amount |-> 12000, current_amount |-> 1000, timeline_months |-> 8,
     priority |-> 5, protected_categories |-> {"shopping"}]

GoalB ==
    [goal_name |-> "Vacation Fund", goal_type |-> "Travel",
     target_amount |-> 3000, current_amount |-> 1800, timeline_months |-> 10,
     priority |-> 2, protected_categories |-> {}]

\* numeric fields the normalisation has to clamp
GoalOdd ==
    [goal_name |-> "Clear Card", goal_type |-> "Debt Reduction",
     target_amount |-> 0, current_amount |-> 250, timeline_months |-> 0,
     priority |-> 9, protected_categories |-> {" Shopping", "Travel"}]

Goals == {GoalA, GoalB, GoalOdd}

GoalLists == SeqsBetween(Goals, 0, MaxGoals)

\* a profile with the monthly_savings_capacity of the same request
ConflictCases ==
    {[profile |-> ProfileA, context |-> [monthly_savings_capacity |-> 900]],
     [profile |-> ProfileB, context |-> [monthly_savings_capacity |-> 700]],
     [profile |-> ProfileTravel, context |-> <<>>]}

\* habit-detection results as a caller of recommend_ranked_behaviors may pass them
Descriptions ==
    {[pattern |-> "repeat convenience purchase behavior", category |-> ""],
     [pattern |-> "High-frequency spending", category |-> "subscriptions"]}

EngineDetections ==
    {[habit_detected |-> d, habit_intensity |-> s.intensity, confidence |-> s.confidence,
      habit_category |-> h] :
        d \in BOOLEAN,
        s \in {[intensity |-> "Low", confidence |-> Pct(22)],
               [intensity |-> "High", confidence |-> Pct(88)]},
        h \in Descriptions}

EngineProfile(category, nature, spend, frequency, weekend_ratio, intensity) ==
    [confidence |-> Pct(88), frequency |-> frequency, consistency |-> Pct(80),
     weeks_active |-> 10, spend |-> spend, night_ratio |-> Pct(50),
     weekend_ratio |-> weekend_ratio, category |-> category, expense_nature |-> nature,
     habit_intensity |-> intensity, behavior_style |-> "balanced"]

EngineProfiles ==
    {EngineProfile("shopping", "Variable", 2500, 6, Pct(60), "High"),
     EngineProfile("subscriptions", "Discretionary", 2500, 6, Pct(60), "High"),
     EngineProfile("travel", "Discretionary", 2500, 6, Pct(60), "Medium"),
     EngineProfile("rent", "Fixed", 2500, 6, Pct(60), "Low"),
     EngineProfile("transport", "Variable", 2500, 2, Pct(20), "Low"),
     EngineProfile("transport", "Variable", 600, 3, Pct(20), "Low"),
     EngineProfile("transport", "Variable", 600, 2, Pct(20), "Low"),
     EngineProfile("dinning out", "Discretionary", 600, 2, Pct(70), "Medium")}

UpstreamFull ==
    [goal_conflict |-> [overall_conflict_score |-> Pct(69)],
     habit_detection |-> [confidence |-> Pct(88)],
     transaction_analysis |-> [alerts |-> <<"large transaction", "late-night transaction">>]]

Upstreams == {<<>>, UpstreamFull}

TopKs == {0 - 7, 0 - 2, 0 - 1, 0} \cup 1..MaxTopK

\* candidates as a caller of rank may pass them
Candidates ==
    {[recommendation |-> "Set a weekly budget cap and track adherence.",
      base_score |-> Pct(72)],
     [recommendation |-> "Immediate action required: freeze non-essential spending for one cycle.",
      base_score |-> Pct(65), template_key |-> "time_shift"],
     [plain |-> "Review expenses monthly and monitor trend drift."]}

CandidateLists == SeqsBetween(Candidates, 1, MaxCandidates)

RankingInputs ==
    {[habit_severity |-> Pct(82), goal_feasibility |-> Pct(35), risk_awareness |-> Pct(55),
      user_profile |-> [behavior_style |-> "balanced"],
      upstream_outputs |->
         [goal_conflict |-> [overall_conflict_score |-> Pct(71)],
          habit_detection |-> [confidence |-> Pct(84)],
          transaction_analysis |-> [alerts |-> <<"late-night spend", "budget overrun">>]]],
     [habit_severity |-> Pct(40), goal_feasibility |-> Pct(72), risk_awareness |-> Pct(80),
      user_profile |-> [behavior_style |-> "conservative"],
      upstream_outputs |-> <<>>],
     [habit_severity |-> One, goal_feasibility |-> 0, risk_awareness |-> 0,
      user_profile |-> [behavior_style |-> "disciplined", frequency |-> 6,
                        night_ratio |-> Pct(62), consistency |-> Pct(58)],
      upstream_outputs |->
         [goal_conflict |->
             [overall_conflict_score |-> One,
              goal_conflicts |-> <<[goal_name |-> "Emergency Fund", conflict_score |-> One]>>],
          habit_detection |-> [confidence |-> One],
          transaction_analysis |-> [alerts |-> <<"a", "b", "c", "d">>]]],
     [habit_severity |-> Pct(30), goal_feasibility |-> Pct(90), risk_awareness |-> Pct(30),
      user_profile |-> [behavior_style |-> "impulsive", frequency |-> 7,
                        night_ratio |-> Pct(90), consistency |-> Pct(20)],
      upstream_outputs |-> <<>>]}

----------------------------------------------------------------------------
(* The process: the artifacts are loaded once, at construction and import;
   after that the entry points are called, one call at a time.  A call is one
   step here, so its locals are never in a state. *)

NoCall == [op |-> "none"]
Pending == [pending |-> TRUE]

Init ==
    /\ habit_model \in {NoModel} \cup HabitArtifacts
    /\ strategy_model \in {NoModel} \cup StrategyArtifacts
    /\ pc = "idle"
    /\ call = NoCall
    /\ result = Pending
    /\ scored_lists = <<>>

\* detector.predict(behavior_features, category)
Predict ==
    /\ pc = "idle"
    /\ \E f \in FeatureVectors, c \in Categories :
          /\ call' = [op |-> "predict", behavior_features |-> f, category |-> c]
          /\ result' = Returned(predict(habit_model, f, c))
    /\ pc' = "done"
    /\ UNCHANGED <<habit_model, strategy_model, scored_lists>>

\* conflict_model.detect_conflicts(habit_detection, active_goals, profile, context)
DetectConflicts ==
    /\ pc = "idle"
    /\ \E hd \in HabitDetections, goals \in GoalLists, case \in ConflictCases :
          /\ call' = [op |-> "detect_conflicts", habit_detection |-> hd,
                      active_goals |-> goals, profile |-> case.profile,
                      context |-> case.context]
          /\ result' = Returned(detect_conflicts(hd, goals, case.profile, case.context))
    /\ pc' = "done"
    /\ UNCHANGED <<habit_model, strategy_model, scored_lists>>

\* recommend_ranked_behaviors(habit_detection, profile, upstream_outputs, top_k)
RecommendRanked ==
    /\ pc = "idle"
    /\ \E hd \in EngineDetections, profile \in EngineProfiles, up \in Upstreams,
          k \in TopKs :
          /\ call' = [op |-> "recommend_ranked_behaviors", habit_detection |-> hd,
                      profile |-> profile, upstream_outputs |-> up, top_k |-> k]
          /\ result' = recommend_ranked_behaviors(strategy_model, hd, profile, up, k)
    /\ pc' = "done"
    /\ UNCHANGED <<habit_model, strategy_model, scored_lists>>

\* _RANKING_MODEL.rank(candidates, ranking_input, top_k)
Rank ==
    /\ pc = "idle"
    /\ \E cands \in CandidateLists, ri \in RankingInputs, k \in 1..MaxTopK :
          /\ call' = [op |-> "rank", candidates |-> cands, ranking_input |-> ri,
                      top_k |-> k]
          /\ result' = Returned(rank(cands, ri, k))
    /\ pc' = "done"
    /\ UNCHANGED <<habit_model, strategy_model, scored_lists>>

\* the caller has the result; the process is ready for the next call
Return ==
    /\ pc = "done"
    /\ pc' = "idle"
    /\ call' = NoCall
    /\ result' = Pending
    /\ UNCHANGED <<habit_model, strategy_model, scored_lists>>

Next == Predict \/ DetectConflicts \/ RecommendRanked \/ Rank \/ Return

Spec == Init /\ [][Next]_vars

----------------------------------------------------------------------------
(* transaction_analyzer.py, habit_recomendation_api.py, habbit_api.py: the
   HTTP endpoints.  Amounts are whole currency units; monthly_required is in
   hundredths, as detect_conflicts leaves it. *)

\* messages[:2] of analyze_transaction
analyze_transaction(transaction, user_profile) ==
    LET avg_spend == user_profile.spend
        confidence == user_profile.confidence
        frequency == Get(user_profile, "frequency", 0)
        consistency == Get(user_profile, "consistency", 0)
        weekend_ratio == Get(user_profile, "weekend_ratio", 0)
        nature == Get(user_profile, "expense_nature", "")
        When(cond, message) == IF cond THEN <<message>> ELSE <<>>
        fixed ==
            When(10 * transaction.amount > 11 * avg_spend,
                 "This fixed expense is above its usual level and may indicate a price increase.")
            \o When(consistency < Pct(60),
                    "Fixed-payment timing appears less regular than usual; review due-date consistency.")
        other ==
            When(100 * transaction.amount > 125 * avg_spend,
                 "This expense is above your recent average for this category.")
            \o When(weekend_ratio >= Pct(55),
                    "Spending in this category is concentrated on weekends.")
            \o When(transaction.is_late_night /\ nature \in {"Variable", "Discretionary"},
                    "This transaction occurred in a late-hour window where costs often trend higher.")
            \o When(frequency >= 4,
                    "Weekly transaction frequency in this category is elevated.")
            \o When(consistency >= Pct(70) /\ confidence >= Pct(60),
                    "This category shows a strengthening recurring spending pattern.")
    IN  IF nature = "Fixed"
        THEN Take(IF fixed = <<>>
                  THEN <<"Fixed expense behavior is stable and payment consistency is on track.">>
                  ELSE fixed, 2)
        ELSE Take(IF other = <<>>
                  THEN <<"This transaction is within your normal pattern for this category.">>
                  ELSE other, 2)

\* goal_lookup.get(goal_name, {}): the last active goal of that name
_goal_map(active_goals, goal_name) ==
    LET named == {i \in 1..Len(active_goals) : Get(active_goals[i], "goal_name", "") = goal_name}
    IN  IF named = {} THEN [none |-> TRUE]
        ELSE active_goals[CHOOSE i \in named : \A j \in named : j <= i]

FeasibilityDropIgnored(monthly_required, monthly_capacity) == One

\* monthly_required in cents, monthly_capacity in whole units
FeasibilityDrop(monthly_required, monthly_capacity) ==
    IF monthly_required <= 0
    THEN 0
    ELSE One - (IF monthly_capacity > 0
                THEN RatioCap1(100 * monthly_capacity, monthly_required)
                ELSE 0)

PrimaryFocusPriority(gc, source_goal) ==
    Max(1, Min(Get(gc, "priority", Get(source_goal, "priority", 3)), 5))

\* goal_priority * conflict_severity * feasibility_drop before rounding, formed
\* from exact factors of the first two and the third to 1e-5
GlobalPriorityScore(gc, source_goal, monthly_capacity) ==
    LET goal_priority == PrimaryFocusPriority(gc, source_goal) * (One \div 5)
        conflict_severity == Clamp01(Get(gc, "conflict_score", 0))
        feasibility_drop ==
            FeasibilityDrop(Max(Get(gc, "monthly_required", 0), 0), monthly_capacity)
        priority_severity == (goal_priority \div 1000) * (conflict_severity \div 1000)
    IN  ((priority_severity \div 200) * (feasibility_drop \div 10)) \div 500

\* one entry of scored_goals
ScoredGoal(gc, source_goal, monthly_capacity) ==
    [goal_name |-> Get(gc, "goal_name", ""),
     goal_type |-> Get(gc, "goal_type", Get(source_goal, "goal_type", "General")),
     goal_priority |-> Round4(PrimaryFocusPriority(gc, source_goal) * (One \div 5)),
     conflict_severity |-> Round4(Clamp01(Get(gc, "conflict_score", 0))),
     feasibility_drop |->
         Round4(FeasibilityDrop(Max(Get(gc, "monthly_required", 0), 0), monthly_capacity)),
     global_priority_score |-> Round4(GlobalPriorityScore(gc, source_goal, monthly_capacity))]

_build_primary_focus(goal_conflict, active_goals, monthly_capacity) ==
    LET conflicts == Get(goal_conflict, "goal_conflicts", <<>>)
        scored_goals ==
            [i \in 1..Len(conflicts) |->
                ScoredGoal(conflicts[i],
                           _goal_map(active_goals, Get(conflicts[i], "goal_name", "")),
                           monthly_capacity)]
        sorted == SortDesc(scored_goals, "global_priority_score")
    IN  IF scored_goals = <<>>
        THEN [message |-> [text |-> "No active goal pressure detected right now."],
              global_priority_formula |-> "GoalPriority x ConflictSeverity x FeasibilityDrop",
              scored_goals |-> <<>>]
        ELSE [message |-> [text |-> "Your current financial priority should be strengthening your {goal_name}.",
                           goal_name |-> sorted[1].goal_name],
              global_priority_formula |-> "GoalPriority x ConflictSeverity x FeasibilityDrop",
              top_goal |-> sorted[1],
              scored_goals |-> sorted]

_monthly_direction(goal_conflict, habit_result, profile, alerts) ==
    LET overall_score == Get(goal_conflict, "overall_conflict_score", 0)
        intensity == Get(habit_result, "habit_intensity", "Low")
        category == Get(profile, "category", "discretionary")
    IN  [category |-> category,
         text |->
            IF overall_score >= Pct(75) \/ intensity = "High"
            THEN "This month's key focus: Control discretionary spending in {category} to prevent liquidity risk."
            ELSE IF overall_score >= Pct(50) \/ Len(alerts) >= 2
            THEN "This month's key focus: Stabilize {category} spending and enforce weekly caps."
            ELSE "This month's key focus: Maintain {category} discipline and preserve monthly savings consistency."]

_personalized_roadmap(primary_focus, profile, goal_conflict) ==
    LET top_goal == Get(primary_focus, "top_goal", <<>>)
        goal_name == Get(top_goal, "goal_name", "core goals")
        category == Get(profile, "category", "discretionary spending")
        conflict_score == Get(goal_conflict, "overall_conflict_score", 0)
    IN  << [text |-> "Step 1: Stabilize {goal_name} reserves.", goal_name |-> goal_name],
           [text |-> "Step 2: Optimize {category} cash flow and remove leakage.",
            category |-> category],
           [text |-> IF conflict_score >= Pct(62)
                     THEN "Step 3: Increase long-term allocation efficiency after one low-conflict cycle."
                     ELSE "Step 3: Increase long-term allocation efficiency while maintaining current control."] >>

_financial_alignment_score(goal_conflict, habit_result, profile) ==
    LET conflict_score == Clamp01(Get(goal_conflict, "overall_conflict_score", 0))
        habit_conf == Clamp01(Get(habit_result, "confidence", 0))
        consistency == Clamp01(Get(profile, "consistency", Pct(50)))
        weekend_ratio == Clamp01(Get(profile, "weekend_ratio", 0))
        alignment == (45 * (One - conflict_score) + 25 * (One - habit_conf)
                      + 20 * consistency + 10 * (One - weekend_ratio)) \div 100
        score_pct == RoundTo(Min(Max(alignment, 0), Pct(100)), 1000)
    IN  [score_pct |-> score_pct,
         label |-> IF score_pct >= Pct(85) THEN "Strongly Aligned"
                   ELSE IF score_pct >= Pct(70) THEN "Moderate Optimization Needed"
                   ELSE IF score_pct >= Pct(55) THEN "Alignment At Risk"
                   ELSE "Critical Realignment Needed"]

\* potential_savings_monthly in hundredths, goal_gap_covered_pct in 1e-4 points,
\* timeline_reduction_months in 1e-4 months
_recommendation_impact_summary(ranked_recommendations, goal_conflict) ==
    LET top == Take(ranked_recommendations, 3)
        n == Len(top)
        score_sum == SumSeq([i \in 1..n |-> top[i].score])
        potential_savings_monthly == 220000 + RoundDiv(score_sum * 78, n * 100)
        conflicts == Get(goal_conflict, "goal_conflicts", <<>>)
        monthly_required ==
            IF conflicts = <<>> THEN 100
            ELSE Max(FirstMaxBy(conflicts, "conflict_score").monthly_required, 100)
        months_sum == SumSeq([i \in 1..n |-> top[i].goal_timeline_reduction_months])
    IN  IF ranked_recommendations = <<>>
        THEN [potential_savings_monthly |-> 0, goal_gap_covered_pct |-> 0,
              timeline_reduction_months |-> 0]
        ELSE [potential_savings_monthly |-> potential_savings_monthly,
              goal_gap_covered_pct |->
                 RoundTo(RatioCap1(potential_savings_monthly, monthly_required), 1000),
              timeline_reduction_months |->
                 RoundTo(Max(8000, months_sum \div n), 1000)]

\* raise HTTPException(status_code=400, detail={"error": "Unsupported category.", ...})
UnsupportedCategory == [http_status |-> 400, error |-> "Unsupported category."]

\* features, lines 220-227
analyze_features(data) ==
    [avg_weekly_frequency |-> data.avg_weekly_frequency,
     consistency |-> data.consistency,
     average_spend |-> data.average_spend,
     weeks_active |-> data.weeks_active,
     weekend_ratio |-> data.weekend_ratio,
     night_ratio |-> data.night_ratio]

\* profile, lines 230-241
analyze_profile(data, habit_result) ==
    [confidence |-> habit_result.confidence,
     frequency |-> data.avg_weekly_frequency,
     consistency |-> data.consistency,
     weeks_active |-> data.weeks_active,
     spend |-> data.average_spend,
     night_ratio |-> data.night_ratio,
     weekend_ratio |-> data.weekend_ratio,
     category |-> StripLower(data.category),
     expense_nature |-> CategoryNature(StripLower(data.category)),
     habit_intensity |-> habit_result.habit_intensity]

\* alerts = analyze_transaction(transaction, profile)[:2]
analyze_alerts(data, profile) ==
    Take(analyze_transaction([amount |-> data.transaction_amount,
                              is_late_night |-> data.transaction_hour >= 22],
                             profile), 2)

\* upstream_outputs of the call of recommend_ranked_behaviors
analyze_upstream(habit_result, goal_conflict, alerts) ==
    [habit_detection |-> habit_result, goal_conflict |-> goal_conflict,
     transaction_analysis |-> [alerts |-> alerts]]

\* what the handler returns once the engine has returned ranked_recommendations;
\* an f-string is the sequence of its parts
analyze_response(data, habit_result, profile, alerts, goal_conflict, ranked_recommendations) ==
    LET is_fixed == profile.expense_nature = "Fixed"
        intervention_level == IF is_fixed THEN "Low" ELSE habit_result.habit_intensity
        primary_strategy == IF ranked_recommendations # <<>>
                            THEN ranked_recommendations[1].recommendation
                            ELSE "Set a weekly spending cap."
        primary_focus == _build_primary_focus(goal_conflict, data.active_goals,
                                              Max(data.monthly_savings_capacity, 0))
    IN  [habit_confidence |-> IF is_fixed THEN 0 ELSE habit_result.confidence,
         primary_strategy |-> primary_strategy,
         transaction_alert |-> alerts,
         goal_conflict |-> goal_conflict,
         ranked_recommendations |-> ranked_recommendations,
         ai_guidance |->
            [primary_financial_focus_area |-> primary_focus,
             monthly_strategic_direction |->
                _monthly_direction(goal_conflict, habit_result, profile, alerts),
             personalized_roadmap_suggestion |->
                _personalized_roadmap(primary_focus, profile, goal_conflict),
             financial_alignment_score |->
                _financial_alignment_score(goal_conflict, habit_result, profile),
             impact_summary |->
                _recommendation_impact_summary(ranked_recommendations, goal_conflict)],
         unified_summary |->
            <<intervention_level, " intervention: ", primary_strategy, " Key alert: ",
              alerts[1]>>
            \o (IF Len(alerts) > 1 THEN <<" Also, ", alerts[2]>> ELSE <<>>)
            \o (IF goal_conflict.alerts # <<>>
                THEN <<" Goal conflict: ", goal_conflict.alerts[1].message>>
                ELSE <<>>),
         intervention_level |-> intervention_level]

\* HabitPredictor.predict(behavior_features), the body of POST /habits/detect
HabitPredictor_predict(h_model, behavior_features) ==
    LET detection == predict(h_model, behavior_features, "General")
    IN  [habit_detected |-> detection.habit_detected, confidence |-> detection.confidence]

\* the categories a request may name; the last two are in no table
EndpointCategories == {" Rent ", "transport", " Shopping", "dinning out", "General", "crypto"}

EndpointFeatures ==
    {f \in FeatureVectors : f.weeks_active = 10 /\ (f.weekend_ratio = Pct(70)) = (f.night_ratio = Pct(50))}

HabitInputs ==
    {[avg_weekly_frequency |-> f.avg_weekly_frequency, consistency |-> f.consistency,
      average_spend |-> f.average_spend, weeks_active |-> f.weeks_active,
      weekend_ratio |-> f.weekend_ratio, night_ratio |-> f.night_ratio,
      category |-> c, transaction_amount |-> amount, transaction_hour |-> hour,
      monthly_savings_capacity |-> r.capacity, active_goals |-> r.goals] :
        f \in EndpointFeatures, c \in EndpointCategories, amount \in {500, 900},
        hour \in {12, 23},
        r \in {[capacity |-> 0, goals |-> <<>>], [capacity |-> 900, goals |-> <<GoalA>>],
               [capacity |-> 700, goals |-> <<GoalB, GoalA>>]}}

\* POST /habits/analyze: the category check, then one bound value per call the
\* handler makes, in the handler's order
Analyze ==
    /\ pc = "idle"
    /\ \E data \in HabitInputs :
          /\ call' = [op |-> "analyze", data |-> data]
          /\ IF CategoryNature(StripLower(data.category)) = ""
             THEN result' = Returned(UnsupportedCategory)
             ELSE \E habit_result \in {predict(habit_model, analyze_features(data), data.category)} :
                  \E profile \in {analyze_profile(data, habit_result)} :
                  \E alerts \in {analyze_alerts(data, profile)} :
                  \E goal_conflict \in {detect_conflicts(habit_result, data.active_goals, profile, [monthly_savings_capacity |-> data.monthly_savings_capacity])} :
                  \E ranked \in {recommend_ranked_behaviors(strategy_model, habit_result, profile, analyze_upstream(habit_result, goal_conflict, alerts), 5)} :
                     result' = IF ranked = Raised THEN Raised
                               ELSE Returned(analyze_response(data, habit_result, profile, alerts, goal_conflict, ranked.returned))
    /\ pc' = "done"
    /\ UNCHANGED <<habit_model, strategy_model, scored_lists>>

\* POST /habits/detect
DetectHabit ==
    /\ pc = "idle"
    /\ \E f \in FeatureVectors :
          /\ call' = [op |-> "habits_detect", behavior_features |-> f,
                      category |-> "General"]
          /\ result' = Returned(HabitPredictor_predict(habit_model, f))
    /\ pc' = "done"
    /\ UNCHANGED <<habit_model, strategy_model, scored_lists>>

NextEndpoints == Analyze \/ DetectHabit \/ Predict \/ Return

SpecEndpoints == Init /\ [][NextEndpoints]_vars

----------------------------------------------------------------------------
(* Concurrent evaluations: FastAPI runs the handlers, which are plain `def`s,
   on a thread pool, so two calls of _RANKING_MODEL.rank can be in progress
   at once.  They share _RANKING_MODEL, which has no attribute, and the
   artifacts; normalized, scored and ranked are locals of each call.  Here pc,
   call, result and scored_lists are functions of the evaluation, and pc[t].i is the
   position of the loop over normalized. *)

Evaluations == {1, 2}

ConcurrentCalls ==
    {[op |-> "rank", candidates |-> cands, ranking_input |-> ri, top_k |-> k] :
        cands \in {cs \in CandidateLists :
                      /\ Len(cs) = 2 /\ cs[1] # cs[2]
                      /\ "base_score" \in DOMAIN cs[1] /\ "template_key" \notin DOMAIN cs[2]},
        ri \in {r \in RankingInputs : r.user_profile.behavior_style # "conservative"},
        k \in {1, 2}}

\* mutant of ScoredOwner: one list for the whole process, as an attribute of
\* _RANKING_MODEL would be
ScoredOwnerShared(t) == 1

\* scored: list[dict[str, Any]] = [] is a local of the call
ScoredOwner(t) == t

At(position, i) == [at |-> position, i |-> i]

InitConcurrent ==
    /\ habit_model = NoModel
    /\ strategy_model = NoModel
    /\ pc = [t \in Evaluations |-> At("idle", 0)]
    /\ call = [t \in Evaluations |-> NoCall]
    /\ result = [t \in Evaluations |-> Pending]
    /\ scored_lists = [t \in Evaluations |-> <<>>]

\* rank is entered: scored = []
BeginRank(t) ==
    /\ pc[t].at = "idle"
    /\ \E c \in ConcurrentCalls : call' = [call EXCEPT ![t] = c]
    /\ scored_lists' = [scored_lists EXCEPT ![ScoredOwner(t)] = <<>>]
    /\ pc' = [pc EXCEPT ![t] = At("score", 1)]
    /\ UNCHANGED <<habit_model, strategy_model, result>>

\* one turn of `for candidate in normalized`: scored.append({...})
AppendRow(t) ==
    /\ pc[t].at = "score"
    /\ LET i == pc[t].i
           candidate == _normalize_candidate(call[t].candidates[i])
       IN  /\ scored_lists' = [scored_lists EXCEPT ![ScoredOwner(t)] =
                            Append(@, ScoredRow(candidate, call[t].ranking_input))]
           /\ pc' = [pc EXCEPT ![t] = IF i < Len(call[t].candidates)
                                      THEN At("score", i + 1)
                                      ELSE At("calibrate", 0)]
    /\ UNCHANGED <<habit_model, strategy_model, call, result>>

\* scored = self._calibrate_scores(scored): score, score_pct, score_tier are
\* written into the rows
Calibrate(t) ==
    /\ pc[t].at = "calibrate"
    /\ scored_lists' = [scored_lists EXCEPT ![ScoredOwner(t)] = _calibrate_scores(@)]
    /\ pc' = [pc EXCEPT ![t] = At("sort", 0)]
    /\ UNCHANGED <<habit_model, strategy_model, call, result>>

\* scored.sort(...); ranked = scored[:max(top_k, 1)]; row["rank"] = idx; return ranked
SortAndRank(t) ==
    /\ pc[t].at = "sort"
    /\ LET sorted == SortDesc(scored_lists[ScoredOwner(t)], "score")
           ranked == TopRows(sorted, call[t].top_k)
       IN  /\ result' = [result EXCEPT ![t] =
                            Returned([i \in 1..Len(ranked) |-> WithRank(ranked[i], i)])]
           /\ scored_lists' = [scored_lists EXCEPT ![ScoredOwner(t)] = <<>>]
    /\ pc' = [pc EXCEPT ![t] = At("done", 0)]
    /\ UNCHANGED <<habit_model, strategy_model, call>>

\* the caller of evaluation t has the result
ReturnOf(t) ==
    /\ pc[t].at = "done"
    /\ pc' = [pc EXCEPT ![t] = At("idle", 0)]
    /\ call' = [call EXCEPT ![t] = NoCall]
    /\ result' = [result EXCEPT ![t] = Pending]
    /\ UNCHANGED <<habit_model, strategy_model, scored_lists>>

NextConcurrent ==
    \E t \in Evaluations :
        BeginRank(t) \/ AppendRow(t) \/ Calibrate(t) \/ SortAndRank(t) \/ ReturnOf(t)

SpecConcurrent == InitConcurrent /\ [][NextConcurrent]_vars

----------------------------------------------------------------------------
(* The two scenarios of test_conflict_detection_model.py, called with every
   habit-detection result on a grid of confidences.  detect_conflicts and rank
   read neither artifact, so the dense specifications start from the process
   in which no artifact file was found. *)

InitWithoutArtifacts ==
    /\ Init
    /\ habit_model = NoModel
    /\ strategy_model = NoModel

ScenarioDetections ==
    [habit_detected : BOOLEAN,
     habit_intensity : {"Low", "Medium", "High"},
     confidence : {Pct(n) : n \in 0..100}]

ContextA == [monthly_savings_capacity |-> 900]
ContextB == [monthly_savings_capacity |-> 700]

DetectScenarioA ==
    /\ pc = "idle"
    /\ \E hd \in ScenarioDetections :
          /\ call' = [op |-> "detect_conflicts", habit_detection |-> hd,
                      active_goals |-> <<GoalA>>, profile |-> ProfileA,
                      context |-> ContextA]
          /\ result' = Returned(detect_conflicts(hd, <<GoalA>>, ProfileA, ContextA))
    /\ pc' = "done"
    /\ UNCHANGED <<habit_model, strategy_model, scored_lists>>

DetectScenarioB ==
    /\ pc = "idle"
    /\ \E hd \in ScenarioDetections :
          /\ call' = [op |-> "detect_conflicts", habit_detection |-> hd,
                      active_goals |-> <<GoalB>>, profile |-> ProfileB,
                      context |-> ContextB]
          /\ result' = Returned(detect_conflicts(hd, <<GoalB>>, ProfileB, ContextB))
    /\ pc' = "done"
    /\ UNCHANGED <<habit_model, strategy_model, scored_lists>>

NextScenarios == DetectScenarioA \/ DetectScenarioB \/ Return

SpecScenarios == InitWithoutArtifacts /\ [][NextScenarios]_vars

----------------------------------------------------------------------------
(* rank called for a conservative user with one planned/monitoring candidate
   and one strong-action candidate of the same template, over a grid of
   RankingInput scalars that crosses every threshold of _context_weights. *)

LightTexts ==
    {"Monitor category trends.",
     "Keep payment dates consistent and track any recurring cost revisions.",
     "Batch purchases into fewer planned sessions."}

StrongTexts ==
    {"Set an immediate cap on this category.",
     "Immediate action required: freeze non-essential spending for one cycle.",
     "Freeze new purchases and redirect at least half to savings on a weekly schedule.",
     "Reallocate the surplus to the goal."}

\* <<base_score of the light candidate, base_score of the strong candidate>>
BasePairs == {<<Pct(60), Pct(66)>>, <<Pct(60), Pct(60)>>, <<Pct(94), One>>}

PairTemplates == {"time_shift", "cooldown_rule"}

SeverityGrid == {0, Pct(75), Pct(76), One}
FeasibilityGrid == {0, Pct(44), Pct(45), One}
RiskGrid == {0, Pct(39), Pct(40), One}

ConservativeInputs ==
    {[habit_severity |-> sev, goal_feasibility |-> feas, risk_awareness |-> risk,
      user_profile |-> [behavior_style |-> "conservative", night_ratio |-> Pct(50)],
      upstream_outputs |-> <<>>] :
        sev \in SeverityGrid, feas \in FeasibilityGrid, risk \in RiskGrid}

RankPair ==
    /\ pc = "idle"
    /\ \E light \in LightTexts, strong \in StrongTexts, bases \in BasePairs,
          key \in PairTemplates, ri \in ConservativeInputs, light_first \in BOOLEAN :
          LET l == [recommendation |-> light, base_score |-> bases[1], template_key |-> key]
              s == [recommendation |-> strong, base_score |-> bases[2], template_key |-> key]
              cands == IF light_first THEN <<l, s>> ELSE <<s, l>>
          IN  /\ call' = [op |-> "rank", candidates |-> cands, ranking_input |-> ri,
                          top_k |-> 2]
              /\ result' = Returned(rank(cands, ri, 2))
    /\ pc' = "done"
    /\ UNCHANGED <<habit_model, strategy_model, scored_lists>>

NextRankPairs == RankPair \/ Return

SpecRankPairs == InitWithoutArtifacts /\ [][NextRankPairs]_vars

----------------------------------------------------------------------------
(* The stages called with probability-like inputs outside [0,1]. *)

OutOfRange == {0 - Pct(20), Pct(50), Pct(150)}

OutOfRangeDetections ==
    [habit_detected : BOOLEAN, habit_intensity : {"High"}, confidence : OutOfRange,
     habit_category : {[pattern |-> "High-frequency spending", category |-> "shopping"]}]

OutOfRangeProfiles ==
    {[category |-> "shopping", expense_nature |-> "Variable", spend |-> 3200,
      frequency |-> 6, weekend_ratio |-> w, night_ratio |-> n, consistency |-> c,
      confidence |-> k, weeks_active |-> 10, habit_intensity |-> "High",
      behavior_style |-> "balanced"] :
        w \in {Pct(140)}, n \in {0 - Pct(30), Pct(50)}, c \in {Pct(200), 0 - Pct(10)},
        k \in {Pct(170)}}

OutOfRangeUpstreams ==
    {[goal_conflict |-> [overall_conflict_score |-> x],
      habit_detection |-> [confidence |-> y]] :
        x \in {Pct(140), 0 - Pct(30)}, y \in {Pct(170), 0 - Pct(300)}}

OutOfRangeCandidates ==
    {[recommendation |-> "Set a weekly budget cap and track adherence.",
      base_score |-> b] : b \in {Pct(130), 0 - Pct(20)}}
    \cup {[recommendation |-> "Review expenses monthly and monitor trend drift.",
            base_score |-> Pct(60)]}

OutOfRangeRankingInputs ==
    {[habit_severity |-> sev, goal_feasibility |-> feas, risk_awareness |-> risk,
      user_profile |-> [behavior_style |-> "balanced"],
      upstream_outputs |-> up] :
        sev \in OutOfRange, feas \in OutOfRange, risk \in OutOfRange,
        up \in {<<>>} \cup OutOfRangeUpstreams}

DetectOutOfRange ==
    /\ pc = "idle"
    /\ \E hd \in OutOfRangeDetections, goals \in {<<GoalA>>, <<GoalB, GoalA>>},
          profile \in OutOfRangeProfiles :
          /\ call' = [op |-> "detect_conflicts", habit_detection |-> hd,
                      active_goals |-> goals, profile |-> profile, context |-> ContextA]
          /\ result' = Returned(detect_conflicts(hd, goals, profile, ContextA))
    /\ pc' = "done"
    /\ UNCHANGED <<habit_model, strategy_model, scored_lists>>

RecommendOutOfRange ==
    /\ pc = "idle"
    /\ \E hd \in OutOfRangeDetections, profile \in OutOfRangeProfiles,
          up \in OutOfRangeUpstreams, k \in {1, 3} :
          /\ call' = [op |-> "recommend_ranked_behaviors", habit_detection |-> hd,
                      profile |-> profile, upstream_outputs |-> up, top_k |-> k]
          /\ result' = recommend_ranked_behaviors(strategy_model, hd, profile, up, k)
    /\ pc' = "done"
    /\ UNCHANGED <<habit_model, strategy_model, scored_lists>>

RankOutOfRange ==
    /\ pc = "idle"
    /\ \E cands \in SeqsBetween(OutOfRangeCandidates, 1, 2),
          ri \in OutOfRangeRankingInputs :
          /\ call' = [op |-> "rank", candidates |-> cands, ranking_input |-> ri,
                      top_k |-> 2]
          /\ result' = Returned(rank(cands, ri, 2))
    /\ pc' = "done"
    /\ UNCHANGED <<habit_model, strategy_model, scored_lists>>

NextOutOfRange == DetectOutOfRange \/ RecommendOutOfRange \/ RankOutOfRange \/ Return

SpecOutOfRange == InitWithoutArtifacts /\ [][NextOutOfRange]_vars

----------------------------------------------------------------------------
(* detect_conflicts called with more goals than the alert list holds. *)

\* the length of the alert list: [...][:5]
MaxAlerts == 5

\* one goal more than the alert list holds
ManyGoalLists == SeqsBetween(Goals, MaxAlerts + 1, MaxAlerts + 1)

DetectManyGoals ==
    /\ pc = "idle"
    /\ \E hd \in {d \in HabitDetections : d.habit_intensity = "High"},
          goals \in ManyGoalLists, case \in ConflictCases :
          /\ call' = [op |-> "detect_conflicts", habit_detection |-> hd,
                      active_goals |-> goals, profile |-> case.profile,
                      context |-> case.context]
          /\ result' = Returned(detect_conflicts(hd, goals, case.profile, case.context))
    /\ pc' = "done"
    /\ UNCHANGED <<habit_model, strategy_model, scored_lists>>

NextManyGoals == DetectConflicts \/ DetectManyGoals \/ Return

SpecManyGoals == InitWithoutArtifacts /\ [][NextManyGoals]_vars

----------------------------------------------------------------------------
(* recommend_ranked_behaviors called as a library function with profiles of
   fixed categories: the caller may have looked expense_nature up, left it
   out, or carry another value, as the profile of
   test_recommendation_ranking_model.py does for "shopping". *)

FixedCategoryProfiles ==
    {[k \in keys |-> IF k = "category" THEN category ELSE IF k = "expense_nature" THEN nature ELSE p[k]] :
        p \in {q \in EngineProfiles : q.frequency = 6},
        keys \in {DOMAIN EngineProfile("", "", 0, 0, 0, ""), DOMAIN EngineProfile("", "", 0, 0, 0, "") \ {"expense_nature"}},
        category \in {"rent", " Rent ", "insurance", "loan payments"},
        nature \in {"Fixed", "Variable"}}

RecommendFixedCategory ==
    /\ pc = "idle"
    /\ \E hd \in EngineDetections, profile \in FixedCategoryProfiles, up \in Upstreams,
          k \in TopKs :
          /\ call' = [op |-> "recommend_ranked_behaviors", habit_detection |-> hd,
                      profile |-> profile, upstream_outputs |-> up, top_k |-> k]
          /\ result' = recommend_ranked_behaviors(strategy_model, hd, profile, up, k)
    /\ pc' = "done"
    /\ UNCHANGED <<habit_model, strategy_model, scored_lists>>

NextFixedCategory == RecommendFixedCategory \/ Return

SpecFixedCategory == InitWithoutArtifacts /\ [][NextFixedCategory]_vars

(***************************************************************************)
(* _build_primary_focus called directly, as test_ai_guidance.py does        *)
(***************************************************************************)

\* goal_conflicts entries: conflict_score in millionths, monthly_required in cents
PrimaryFocusEntries ==
    { [goal_name |-> "Emergency Fund", goal_type |-> "Emergency", priority |-> 5,
       conflict_score |-> Pct(80), monthly_required |-> 200000],
      [goal_name |-> "Vacation", goal_type |-> "Lifestyle", priority |-> 3,
       conflict_score |-> Pct(90), monthly_required |-> 60000],
      [goal_name |-> "Home", goal_type |-> "Purchase", priority |-> 5,
       conflict_score |-> Pct(80), monthly_required |-> 200030],
      [goal_name |-> "Car", conflict_score |-> Pct(70), monthly_required |-> 150000],
      [goal_name |-> "Gadget", goal_type |-> "General", priority |-> 9,
       conflict_score |-> Pct(120), monthly_required |-> 0],
      [goal_name |-> "Travel", goal_type |-> "Lifestyle", priority |-> 0,
       conflict_score |-> 0 - Pct(10), monthly_required |-> 90000] }

PrimaryFocusGoalConflicts ==
    {[overall_conflict_score |-> 0]}
        \cup {[goal_conflicts |-> gcs] : gcs \in SeqsBetween(PrimaryFocusEntries, 0, MaxGoals)}

PrimaryFocusActiveGoals ==
    {<<>>, <<[goal_name |-> "Car", goal_type |-> "Purchase", priority |-> 5]>>}

PrimaryFocusCapacities == {0 - 50, 0, 700, 1500}

BuildPrimaryFocus ==
    /\ pc = "idle"
    /\ \E goal_conflict \in PrimaryFocusGoalConflicts, active_goals \in PrimaryFocusActiveGoals,
          monthly_capacity \in PrimaryFocusCapacities :
          /\ call' = [op |-> "_build_primary_focus", goal_conflict |-> goal_conflict,
                      active_goals |-> active_goals, monthly_capacity |-> monthly_capacity]
          /\ result' = Returned(_build_primary_focus(goal_conflict, active_goals,
                                                     monthly_capacity))
    /\ pc' = "done"
    /\ UNCHANGED <<habit_model, strategy_model, scored_lists>>

NextPrimaryFocus == BuildPrimaryFocus \/ Return

SpecPrimaryFocus == InitWithoutArtifacts /\ [][NextPrimaryFocus]_vars

(***************************************************************************)
(* _goal_pressure on a grid of raw goals and capacities                     *)
(***************************************************************************)

PressureGoals ==
    [goal_name : {"Goal"}, goal_type : {"General"},
     target_amount : {0, 1000, 12000},
     current_amount : {0, 250, 1500},
     timeline_months : {0, 1, 8, 24},
     priority : {0, 1, 3, 5, 9},
     protected_categories : {{}}]

PressureCapacities == {0, 100, 900}

\* lines 85-87 of detect_conflicts: the goal is normalized, then scored
GoalPressure ==
    /\ pc = "idle"
    /\ \E raw_goal \in PressureGoals, monthly_capacity \in PressureCapacities :
          /\ call' = [op |-> "_goal_pressure", goal |-> raw_goal,
                      monthly_capacity |-> monthly_capacity]
          /\ result' = Returned(_goal_pressure(_normalize_goal(raw_goal), monthly_capacity))
    /\ pc' = "done"
    /\ UNCHANGED <<habit_model, strategy_model, scored_lists>>

NextGoalPressure == GoalPressure \/ Return

SpecGoalPressure == InitWithoutArtifacts /\ [][NextGoalPressure]_vars

----------------------------------------------------------------------------
(* Properties *)

\* a call of the entry point op has returned or raised
Done(op) == pc = "done" /\ call.op = op

HasReturned == "returned" \in DOMAIN result

In01(x) == 0 <= x /\ x <= One

BreakdownKeys ==
    {"base_score", "habit_severity", "goal_pressure", "risk_fit", "profile_fit",
     "urgency_signal", "upstream_signal"}

\* the score fields of one returned row
RowScoresIn01(row) ==
    /\ In01(row.score)
    /\ "raw_score" \in DOMAIN row => In01(row.raw_score)
    /\ \A k \in BreakdownKeys : In01(row.score_breakdown[k])

\* the call went down the template-generation and ranking path
RankedPath ==
    /\ Done("recommend_ranked_behaviors")
    /\ Get(call.profile, "expense_nature", "") # "Fixed"
    /\ call.habit_detection.habit_detected

\* C1: for valid inputs every emitted score field lies in [0,1]: the detector's
\* confidence, ml_score and rule_score; every conflict_score and the
\* overall_conflict_score; every candidate's base_score; and score, raw_score and
\* the seven score_breakdown components of every returned row.
C1_ScoresInUnitInterval ==
    /\ Done("predict") =>
          /\ In01(result.returned.confidence)
          /\ In01(result.returned.scores.ml_score)
          /\ In01(result.returned.scores.rule_score)
    /\ Done("detect_conflicts") =>
          /\ In01(result.returned.overall_conflict_score)
          /\ \A g \in SeqRange(result.returned.goal_conflicts) : In01(g.conflict_score)
    /\ (RankedPath /\ HasReturned) =>
          \A c \in SeqRange(scored_recommendations(strategy_model, call.habit_detection,
                                                   call.profile, call.top_k)) :
             In01(c.base_score)
    /\ ((Done("recommend_ranked_behaviors") \/ Done("rank")) /\ HasReturned) =>
          \A row \in SeqRange(result.returned) : RowScoresIn01(row)

\* a ranked recommendation list whose template boosts push a candidate to 1.0
C1_Witness ==
    /\ RankedPath
    /\ HasReturned
    /\ Len(result.returned) >= 2
    /\ \E c \in SeqRange(scored_recommendations(strategy_model, call.habit_detection,
                                                call.profile, call.top_k)) :
          c.base_score = One

\* C2: the rows rank returns for a non-empty candidate list and top_k >= 1 are
\* in non-increasing order of score and carry the ranks 1, 2, ..., n in list
\* order, n = min(top_k, number of candidates).
C2_OrderedAndDenselyRanked ==
    (Done("rank") /\ call.candidates # <<>> /\ call.top_k >= 1) =>
        LET rows == result.returned
        IN  /\ Len(rows) = Min(call.top_k, Len(call.candidates))
            /\ \A i \in 1..Len(rows) : rows[i].rank = i
            /\ \A i \in 1..(Len(rows) - 1) : rows[i].score >= rows[i + 1].score

\* three candidates given lowest first, two rows kept, strictly ordered
C2_Witness ==
    /\ Done("rank")
    /\ Len(call.candidates) = 3
    /\ call.top_k = 2
    /\ Len(result.returned) = 2
    /\ result.returned[1].score > result.returned[2].score
    /\ result.returned[1].recommendation # _normalize_candidate(call.candidates[1]).recommendation

\* the spellings of the Fixed categories among Categories
FixedSpellings == {"rent", " Rent ", "Insurance", "Loan Payments "}

\* C4: for a category whose nature is Fixed, however it is spelled, predict
\* returns habit_detected = false, habit_intensity = "Low" and confidence = 0,
\* for every feature vector and with or without a loaded artifact.
C4_FixedCategoryNeverAHabit ==
    (Done("predict") /\ call.category \in FixedSpellings) =>
        /\ result.returned.habit_detected = FALSE
        /\ result.returned.habit_intensity = "Low"
        /\ result.returned.confidence = 0

\* a padded, capitalised Fixed category with features that score 1.0 by rule
C4_Witness ==
    /\ Done("predict")
    /\ call.category = "Loan Payments "
    /\ habit_model # NoModel
    /\ _rule_score(call.behavior_features) >= Pct(75)
    /\ result.returned.habit_detected = FALSE

\* C5: with an empty active_goals list detect_conflicts returns
\* conflict_detected = false, overall_conflict_score = 0.0, overall_severity =
\* "Low", alerts = [] and goal_conflicts = [].
C5_EmptyGoalsNoConflict ==
    (Done("detect_conflicts") /\ call.active_goals = <<>>) =>
        /\ result.returned.conflict_detected = FALSE
        /\ result.returned.overall_conflict_score = 0
        /\ result.returned.overall_severity = "Low"
        /\ result.returned.alerts = <<>>
        /\ result.returned.goal_conflicts = <<>>

\* no goals, although the habit is detected with high confidence
C5_Witness ==
    /\ Done("detect_conflicts")
    /\ call.active_goals = <<>>
    /\ call.habit_detection.habit_detected
    /\ call.habit_detection.confidence = Pct(88)
    /\ result.returned.overall_severity = "Low"

\* C6: recommend_ranked_behaviors returns a non-empty list for every
\* habit-detection result, profile and top_k, and a list of at most top_k rows
\* when top_k >= 1.  Stated over the calls that return.
C6_NeverEmpty ==
    (Done("recommend_ranked_behaviors") /\ HasReturned) =>
        /\ Len(result.returned) >= 1
        /\ call.top_k >= 1 => Len(result.returned) <= call.top_k

\* the call is for a category that is not Fixed and no habit was detected
LightTouchCase ==
    /\ Done("recommend_ranked_behaviors")
    /\ CategoryNature(StripLower(Get(call.profile, "category", ""))) # "Fixed"
    /\ ~call.habit_detection.habit_detected

\* the first-match table of light-touch messages; planned_slots says whether the
\* row for frequency >= 3 is part of the table
LightTouchTable(profile, planned_slots) ==
    IF StripLower(profile.category) = "subscriptions"
    THEN "Review active subscriptions monthly and remove low-value renewals."
    ELSE IF StripLower(profile.category) = "travel"
    THEN "Set a travel spending envelope per trip and confirm bookings against that limit."
    ELSE IF profile.weekend_ratio >= Pct(60)
    THEN "Set a weekend budget cap for this category and track adherence weekly."
    ELSE IF profile.spend >= 2000
    THEN "Set a per-transaction budget limit and review exceptions at month-end."
    ELSE IF planned_slots /\ profile.frequency >= 3
    THEN "Use pre-planned purchase slots for this category and avoid unscheduled repeats."
    ELSE "No strong behavioral pattern is currently detected; continue periodic category monitoring."

\* exactly one row, rank 1, score 0.74, with the given text
OneLightTouchRow(text) ==
    /\ HasReturned
    /\ Len(result.returned) = 1
    /\ result.returned[1].rank = 1
    /\ result.returned[1].score = Pct(74)
    /\ result.returned[1].recommendation = text

\* C10 as stated: not Fixed and no habit detected gives exactly one row (rank 1,
\* score 0.74) for every top_k, its text chosen by first match among
\* subscriptions, travel, weekend_ratio >= 0.6, spend >= 2000, and the periodic
\* monitoring message in every other case.
C10_FiveRowTable ==
    LightTouchCase => OneLightTouchRow(LightTouchTable(call.profile, FALSE))

\* C10 amended: the same single row, the table having one more row before the
\* monitoring message: frequency >= 3 gives the pre-planned purchase slots
\* message.
C10_SixRowTable ==
    LightTouchCase => OneLightTouchRow(LightTouchTable(call.profile, TRUE))

\* no habit detected, none of the first four rows applies, three purchases a week
C10_Witness ==
    /\ LightTouchCase
    /\ call.profile.frequency >= 3
    /\ call.profile.spend < 2000
    /\ call.profile.weekend_ratio < Pct(60)
    /\ call.top_k < 1
    /\ OneLightTouchRow("Use pre-planned purchase slots for this category and avoid unscheduled repeats.")

ScenarioACall ==
    /\ Done("detect_conflicts")
    /\ call.profile = ProfileA
    /\ call.active_goals = <<GoalA>>
    /\ call.context = ContextA

ScenarioBCall ==
    /\ Done("detect_conflicts")
    /\ call.profile = ProfileB
    /\ call.active_goals = <<GoalB>>
    /\ call.context = ContextB

\* C7: in Scenario A (shopping profile, protected Emergency Fund goal, capacity
\* 900) detect_conflicts returns conflict_detected = true, overall_severity
\* High or Critical, overall_conflict_score >= 0.62 and a non-empty alerts list,
\* for every habit-detection result with confidence in [0,1].
C7_ScenarioAHighConflict ==
    (ScenarioACall /\ In01(call.habit_detection.confidence)) =>
        /\ result.returned.conflict_detected = TRUE
        /\ result.returned.overall_severity \in {"High", "Critical"}
        /\ result.returned.overall_conflict_score >= Pct(62)
        /\ result.returned.alerts # <<>>

\* Scenario A with the weakest detection: not detected, confidence 0
C7_Witness ==
    /\ ScenarioACall
    /\ ~call.habit_detection.habit_detected
    /\ call.habit_detection.confidence = 0
    /\ result.returned.overall_severity = "High"
    /\ result.returned.overall_conflict_score < Pct(70)

\* C8: in Scenario B (transport profile, Travel goal, capacity 700)
\* detect_conflicts returns conflict_detected = false, overall_severity = "Low"
\* and overall_conflict_score < 0.42, for every habit-detection result with
\* habit_detected = false and confidence <= 0.5.
C8_ScenarioBLowConflict ==
    (/\ ScenarioBCall
     /\ ~call.habit_detection.habit_detected
     /\ In01(call.habit_detection.confidence)
     /\ call.habit_detection.confidence <= Pct(50)) =>
        /\ result.returned.conflict_detected = FALSE
        /\ result.returned.overall_severity = "Low"
        /\ result.returned.overall_conflict_score < Pct(42)

\* Scenario B at the largest confidence the claim covers
C8_Witness ==
    /\ ScenarioBCall
    /\ ~call.habit_detection.habit_detected
    /\ call.habit_detection.confidence = Pct(50)
    /\ result.returned.overall_conflict_score > Pct(30)
    /\ result.returned.alerts = <<>>

\* the word lists of the claim about conservative users
PlannedWords == {"review", "monitor", "track", "planned"}
StrongWords == {"freeze", "immediate", "cap", "reallocate"}
SafeWords == {"planned", "review", "cap", "budget", "track"}

IsPlannedCandidate(c) == AnyIn(PlannedWords, c.recommendation)

IsStrongCandidate(c) ==
    /\ AnyIn(StrongWords, c.recommendation)
    /\ ~AnyIn(PlannedWords, c.recommendation)

\* a planned/monitoring candidate l and a strong-action candidate s of the same
\* template, the strong one's base_score at most 0.06 larger
ComparablePair(l, s) ==
    /\ IsPlannedCandidate(l)
    /\ IsStrongCandidate(s)
    /\ l.template_key = s.template_key
    /\ s.base_score - l.base_score <= Pct(6)

\* the row for l comes before every row for s
PlacedAbove(rows, l, s) ==
    \E i \in 1..Len(rows) :
        /\ rows[i].recommendation = l.recommendation
        /\ \A j \in 1..Len(rows) : rows[j].recommendation = s.recommendation => i < j

ConservativeCall ==
    /\ Done("rank")
    /\ Get(call.ranking_input.user_profile, "behavior_style", "balanced") = "conservative"
    /\ In01(call.ranking_input.habit_severity)
    /\ In01(call.ranking_input.goal_feasibility)
    /\ In01(call.ranking_input.risk_awareness)

NormalizedCandidates == {_normalize_candidate(c) : c \in SeqRange(call.candidates)}

\* C9 as stated: for a conservative user and every RankingInput with scalars in
\* [0,1], rank places a planned/monitoring candidate above a strong-action
\* candidate of the same template_key whose base_score exceeds the other's by at
\* most 0.06.
C9_PlannedAboveStrong ==
    ConservativeCall =>
        \A l, s \in NormalizedCandidates :
            ComparablePair(l, s) => PlacedAbove(result.returned, l, s)

\* C9 amended: the same, for the pairs in which the planned/monitoring text holds
\* one of the words planned, review, cap, budget, track and the strong-action
\* text holds none of them.
C9_SafePlannedAboveStrong ==
    ConservativeCall =>
        \A l, s \in NormalizedCandidates :
            (/\ ComparablePair(l, s)
             /\ AnyIn(SafeWords, l.recommendation)
             /\ ~AnyIn(SafeWords, s.recommendation)) =>
                PlacedAbove(result.returned, l, s)

\* the strong candidate given first, 0.06 ahead on base_score and with every
\* bonus of _urgency_signal and _risk_fit, ends second by less than 0.01
C9_Witness ==
    /\ ConservativeCall
    /\ Len(call.candidates) = 2
    /\ call.candidates[1].recommendation =
          "Freeze new purchases and redirect at least half to savings on a weekly schedule."
    /\ call.candidates[2].recommendation =
          "Keep payment dates consistent and track any recurring cost revisions."
    /\ call.candidates[1].base_score = call.candidates[2].base_score + Pct(6)
    /\ call.ranking_input.habit_severity > Pct(75)
    /\ result.returned[1].recommendation = call.candidates[2].recommendation
    /\ result.returned[1].raw_score - result.returned[2].raw_score < Pct(1)

\* a percentage between 0 and 100 points
InPct(x) == 0 <= x /\ x <= Pct(100)

\* the rows of a returned recommend_ranked_behaviors or rank call
ReturnedRows ==
    IF (Done("recommend_ranked_behaviors") \/ Done("rank")) /\ HasReturned
    THEN SeqRange(result.returned)
    ELSE {}

\* C11 as stated: score_pct, goal_success_probability_before,
\* goal_success_probability_after and feasibility_impact_pct of every returned
\* row lie in [0,100], on the ranked path and on both fallback rows.
C11_PercentagesIn0To100 ==
    \A row \in ReturnedRows :
        /\ InPct(row.score_pct)
        /\ InPct(row.goal_success_probability_before)
        /\ InPct(row.goal_success_probability_after)
        /\ InPct(row.feasibility_impact_pct)

\* C11 amended: score_pct and the two goal success probabilities of every
\* returned row lie in [0,100]; feasibility_impact_pct is a reduction and lies
\* in [-20,-4] (at most -6 on the ranked path and the light-touch row, -4 on
\* the Fixed row).
C11_PercentagesInRange ==
    \A row \in ReturnedRows :
        /\ InPct(row.score_pct)
        /\ InPct(row.goal_success_probability_before)
        /\ InPct(row.goal_success_probability_after)
        /\ 0 - Pct(20) <= row.feasibility_impact_pct
        /\ row.feasibility_impact_pct <= 0 - Pct(4)
        /\ "raw_score" \in DOMAIN row => row.feasibility_impact_pct <= 0 - Pct(6)

\* a ranked row whose feasibility impact sits at the cap of -20 points
C11_Witness ==
    /\ Done("rank")
    /\ \E row \in ReturnedRows :
          /\ row.feasibility_impact_pct = 0 - Pct(20)
          /\ row.score_pct = Pct(98)

\* C12: whatever probability-like inputs a stage receives, every
\* probability-like value it emits lies in [0,1]: the conflict scores of
\* detect_conflicts, and score, raw_score and the seven score_breakdown entries
\* of every row of recommend_ranked_behaviors and rank.
C12_NothingOutOfRangeEmitted ==
    /\ Done("detect_conflicts") =>
          /\ In01(result.returned.overall_conflict_score)
          /\ \A g \in SeqRange(result.returned.goal_conflicts) : In01(g.conflict_score)
    /\ \A row \in ReturnedRows : RowScoresIn01(row)

\* the total of the seven weights, in hundredths
WeightTotal(weights) ==
    weights.base + weights.severity + weights.goal + weights.risk
    + weights.profile + weights.urgency + weights.upstream

\* C13: for every RankingInput the seven weights of _context_weights sum to the
\* total of the base weights, 1.00, whichever of the three adjustments fire.
C13_WeightsSumToOne ==
    Done("rank") => WeightTotal(_context_weights(call.ranking_input)) = 100

IsNonLow(entry) == entry.severity \in {"Medium", "High", "Critical"}

\* how many elements of the sequence carry the goal name
CountNamed(xs, name) == Cardinality({i \in 1..Len(xs) : xs[i].goal_name = name})

\* C14: for a non-empty goal list, goal_conflicts has one entry per input goal,
\* sorted by conflict_score descending; overall_conflict_score is the largest
\* per-goal score; conflict_detected is true exactly when overall_severity is
\* Medium, High or Critical; alerts holds at most 5 entries, all non-Low, being
\* the first non-Low entries of goal_conflicts in the same order.
C14_AggregateOfGoalConflicts ==
    (Done("detect_conflicts") /\ call.active_goals # <<>>) =>
        LET r == result.returned
            gc == r.goal_conflicts
            non_low == SelectSeq(gc, IsNonLow)
        IN  /\ Len(gc) = Len(call.active_goals)
            /\ \A g \in SeqRange(call.active_goals) :
                  CountNamed(gc, g.goal_name) = CountNamed(call.active_goals, g.goal_name)
            /\ \A i \in 1..(Len(gc) - 1) : gc[i].conflict_score >= gc[i + 1].conflict_score
            /\ \A i \in 1..Len(gc) : r.overall_conflict_score >= gc[i].conflict_score
            /\ \E i \in 1..Len(gc) : r.overall_conflict_score = gc[i].conflict_score
            /\ r.conflict_detected <=> r.overall_severity \in {"Medium", "High", "Critical"}
            /\ Len(r.alerts) = Min(MaxAlerts, Len(non_low))
            /\ \A i \in 1..Len(r.alerts) :
                  /\ r.alerts[i].goal_name = non_low[i].goal_name
                  /\ r.alerts[i].severity = non_low[i].severity
                  /\ r.alerts[i].severity # "Low"

\* six goals given lowest first, every one of them above Low: five alerts
C14_Witness ==
    /\ Done("detect_conflicts")
    /\ Len(call.active_goals) = MaxAlerts + 1
    /\ Len(SelectSeq(result.returned.goal_conflicts, IsNonLow)) = MaxAlerts + 1
    /\ Len(result.returned.alerts) = MaxAlerts
    /\ result.returned.goal_conflicts[1].goal_name # call.active_goals[1].goal_name
    /\ result.returned.goal_conflicts[1].conflict_score
          > result.returned.goal_conflicts[MaxAlerts + 1].conflict_score

\* the category of the call in flight is in no table of category_config.py
UnrecognizedCategory ==
    /\ pc = "done"
    /\ call.op \in {"predict", "habits_detect", "analyze"}
    /\ CategoryNature(StripLower(IF call.op = "analyze" THEN call.data.category
                                 ELSE call.category)) = ""

\* C15: a category that is in none of the tables is a validation error at the
\* boundary and is never scored: the analyze endpoint answers it with the
\* 400 "Unsupported category." error, and the detector and the legacy
\* /habits/detect endpoint do not return a detection for it.
C15_UnrecognizedCategoryRejected ==
    UnrecognizedCategory =>
        IF call.op = "analyze" THEN result = Returned(UnsupportedCategory)
        ELSE result = Raised

\* the analyze endpoint does reject a category of no table
C15_AnalyzeRejects ==
    (UnrecognizedCategory /\ call.op = "analyze") => result = Returned(UnsupportedCategory)

C15_AnalyzeRejects_Witness ==
    UnrecognizedCategory /\ call.op = "analyze" /\ call.data.category = "crypto"

\* the legacy endpoint scored the category "General" as a non-fixed habit
C15_GeneralScored ==
    /\ UnrecognizedCategory
    /\ call.op = "habits_detect"
    /\ HasReturned
    /\ result.returned.habit_detected

\* the artifact of the component the call uses is missing or its inference throws
ArtifactProblem ==
    \/ call.op = "predict" /\ (habit_model = NoModel \/ HabitInferenceRaises(habit_model))
    \/ call.op = "recommend_ranked_behaviors"
          /\ (strategy_model = NoModel \/ StrategyInferenceRaises(strategy_model))

\* C16: no artifact problem is raised to the caller: with the artifact missing
\* or its inference throwing, a detect call returns the rule score as the
\* confidence of a non-fixed category, and a recommend call returns its rows.
C16_ArtifactProblemNeverRaised ==
    (pc = "done" /\ ArtifactProblem) =>
        /\ HasReturned
        /\ (call.op = "predict" /\ CategoryNature(StripLower(call.category)) # "Fixed") =>
              /\ result.returned.confidence = Round3(_rule_score(call.behavior_features))
              /\ result.returned.scores.rule_score = result.returned.scores.ml_score

\* the rows evaluation t has appended so far are those of its own candidates
OwnRows(t) ==
    LET rows == scored_lists[t]
        appended == IF pc[t].at = "score" THEN pc[t].i - 1 ELSE Len(call[t].candidates)
    IN  /\ Len(rows) = appended
        /\ \A i \in 1..Len(rows) :
              rows[i].recommendation = _normalize_candidate(call[t].candidates[i]).recommendation

\* C17: however two rank evaluations interleave, each returns exactly what
\* rank returns for its own arguments when run alone, and the rows it is
\* building are never another evaluation's.
C17_ConcurrentEvaluationsIndependent ==
    \A t \in Evaluations :
        /\ pc[t].at = "done" =>
              result[t] = Returned(rank(call[t].candidates, call[t].ranking_input,
                                        call[t].top_k))
        /\ pc[t].at \in {"score", "calibrate", "sort"} => OwnRows(t)

\* one evaluation has returned while another, with other arguments, has its
\* rows appended but not yet calibrated
C17_Witness ==
    \E t, u \in Evaluations :
        /\ pc[t].at = "done"
        /\ pc[u].at = "calibrate"
        /\ call[t].candidates # call[u].candidates
        /\ call[t].ranking_input # call[u].ranking_input
        /\ Len(result[t].returned) = 2

\* a call made while the artifact its component uses is missing took the
\* heuristic path
HeuristicPathWhenMissing ==
    /\ (Done("predict") /\ habit_model = NoModel
            /\ CategoryNature(StripLower(call.category)) # "Fixed") =>
          /\ result.returned.confidence = Round3(_rule_score(call.behavior_features))
          /\ result.returned.scores.ml_score = Round3(_rule_score(call.behavior_features))
          /\ ~result.returned.scores.model_loaded
    /\ (Done("recommend_ranked_behaviors") /\ strategy_model = NoModel /\ RankedPath) =>
          result = Returned(rank(scored_recommendations(NoModel, call.habit_detection,
                                                        call.profile, call.top_k),
                                 build_ranking_input(call.habit_detection, call.profile,
                                                     call.upstream_outputs),
                                 call.top_k))

\* C18: the artifacts are loaded once: no call loads, reloads, modifies or
\* replaces habit_model or strategy_model, and every call made while an
\* artifact is missing uses the heuristic path (the detector's confidence is
\* the rule score and model_loaded is false; the suitability is the heuristic).
C18_LoadedOnceNeverReloaded ==
    /\ []HeuristicPathWhenMissing
    /\ [][habit_model' = habit_model /\ strategy_model' = strategy_model]_vars

\* a detection without the habit artifact whose rule score is not what the
\* artifact would have answered
C18_Witness ==
    /\ Done("predict")
    /\ habit_model = NoModel
    /\ CategoryNature(StripLower(call.category)) # "Fixed"
    /\ result.returned.confidence = Round3(_rule_score(call.behavior_features))
    /\ result.returned.confidence # Round3(HabitPredictProba("habit_clf_frequency", call.behavior_features))
    /\ ~result.returned.scores.model_loaded

\* the category of the profile is one the table gives the nature Fixed
FixedCategoryCall ==
    /\ Done("recommend_ranked_behaviors")
    /\ CategoryNature(StripLower(Get(call.profile, "category", ""))) = "Fixed"

\* C19: for a profile whose category the table maps to Fixed,
\* recommend_ranked_behaviors returns exactly the one fixed stability row, with
\* score 0.9 and rank 1, whatever the detection, upstream_outputs and top_k.
C19_FixedCategoryBypassesRanking ==
    FixedCategoryCall => result = Returned(<<FixedRow>>)

\* the bypass as the code makes it: on the profile's expense_nature field
C19_FixedNatureFieldBypassesRanking ==
    (Done("recommend_ranked_behaviors") /\ Get(call.profile, "expense_nature", "") = "Fixed") =>
        /\ result = Returned(<<FixedRow>>)
        /\ result.returned[1].score = Pct(90)
        /\ result.returned[1].rank = 1

C19_FixedNatureField_Witness ==
    /\ FixedCategoryCall
    /\ Get(call.profile, "expense_nature", "") = "Fixed"
    /\ call.habit_detection.habit_detected
    /\ call.top_k > 1

\* C20: in every result of rank with at least two rows, the why_ranked
\* rationales of the returned rows are not all the same text.
C20_RationalesNotAllIdentical ==
    (Done("rank") /\ Len(result.returned) >= 2) =>
        \E i, j \in 1..Len(result.returned) :
            result.returned[i].why_ranked # result.returned[j].why_ranked

\* two candidates of different templates do get different rationales
C20_DistinctRationales ==
    /\ Done("rank")
    /\ Len(result.returned) >= 2
    /\ result.returned[1].template_key # result.returned[2].template_key
    /\ result.returned[1].why_ranked # result.returned[2].why_ranked

\* C21: the ranking stage deduplicates: no two rows returned by rank carry the
\* same recommendation text, whatever candidate list it was given.
C21_RankDeduplicates ==
    Done("rank") =>
        \A i, j \in 1..Len(result.returned) :
            i # j => result.returned[i].recommendation # result.returned[j].recommendation

\* what recommend_ranked_behaviors generates is free of repeated texts, so its
\* rows are
C21_GeneratedRowsDistinct ==
    (Done("recommend_ranked_behaviors") /\ HasReturned) =>
        \A i, j \in 1..Len(result.returned) :
            i # j => result.returned[i].recommendation # result.returned[j].recommendation

\* the call's goal_conflicts list and the goal looked up for one of its entries
FocusConflicts == Get(call.goal_conflict, "goal_conflicts", <<>>)

FocusSource(i) == _goal_map(call.active_goals, Get(FocusConflicts[i], "goal_name", ""))

\* the three factors of the claim, computed from the call's arguments
FocusGoalPriority(i) ==
    LET gc == FocusConflicts[i]
        priority == IF "priority" \in DOMAIN gc THEN gc.priority
                    ELSE IF "priority" \in DOMAIN FocusSource(i) THEN FocusSource(i).priority
                    ELSE 3
    IN  (IF priority < 1 THEN 1 ELSE IF priority > 5 THEN 5 ELSE priority) * 200000

FocusConflictSeverity(i) ==
    LET score == FocusConflicts[i].conflict_score
    IN  IF score < 0 THEN 0 ELSE IF score > One THEN One ELSE score

FocusFeasibilityDrop(i) ==
    LET monthly_required == FocusConflicts[i].monthly_required
        capacity == 100 * call.monthly_capacity
    IN  IF monthly_required <= 0 THEN 0
        ELSE IF capacity <= 0 THEN One
        ELSE IF capacity >= monthly_required THEN 0
        ELSE One - Ratio(capacity, monthly_required)

\* the product to 1e-5, and the product as reported (4 decimals)
FocusProduct(i) ==
    LET priority_severity ==
            (FocusGoalPriority(i) \div 1000) * (FocusConflictSeverity(i) \div 1000)
    IN  ((priority_severity \div 200) * (FocusFeasibilityDrop(i) \div 10)) \div 500

FocusReported(i) == Round4(FocusProduct(i))

\* C22 (amended): top_goal is the first of scored_goals, which holds one entry per
\* goal conflict with the three factors of the formula and their product, each
\* rounded to 4 decimals, sorted by the rounded product descending, so top_goal
\* maximizes the rounded product; without goal conflicts there is no top_goal and
\* scored_goals is empty.
C22_TopGoalMaximizesRoundedProduct ==
    Done("_build_primary_focus") =>
        LET focus == result.returned
            n == Len(FocusConflicts)
        IN  IF n = 0
            THEN "top_goal" \notin DOMAIN focus /\ focus.scored_goals = <<>>
            ELSE /\ Len(focus.scored_goals) = n
                 /\ focus.top_goal = focus.scored_goals[1]
                 /\ \A j \in 1..(n - 1) :
                        focus.scored_goals[j].global_priority_score
                            >= focus.scored_goals[j + 1].global_priority_score
                 /\ \A i \in 1..n :
                        /\ focus.top_goal.global_priority_score >= FocusReported(i)
                        /\ \E j \in 1..n :
                            /\ focus.scored_goals[j].goal_name = FocusConflicts[i].goal_name
                            /\ focus.scored_goals[j].goal_priority = FocusGoalPriority(i)
                            /\ focus.scored_goals[j].conflict_severity
                                   = Round4(FocusConflictSeverity(i))
                            /\ focus.scored_goals[j].feasibility_drop
                                   = Round4(FocusFeasibilityDrop(i))
                            /\ focus.scored_goals[j].global_priority_score = FocusReported(i)

\* C22 witness: the top goal is not the goal with the highest conflict_score.
C22_Witness ==
    /\ Done("_build_primary_focus")
    /\ Len(FocusConflicts) = 2
    /\ result.returned.top_goal.goal_name = "Emergency Fund"
    /\ result.returned.top_goal.global_priority_score = 520000
    /\ \E i \in 1..2 :
        /\ FocusConflicts[i].goal_name = "Vacation"
        /\ FocusConflicts[i].conflict_score > result.returned.top_goal.conflict_severity

\* C22 as stated: the top goal maximizes the product itself, so no goal conflict
\* of the call has a larger product than the goal named by top_goal.
C22_TopGoalMaximizesProduct ==
    (Done("_build_primary_focus") /\ Len(FocusConflicts) > 0) =>
        \E t \in 1..Len(FocusConflicts) :
            /\ FocusConflicts[t].goal_name = result.returned.top_goal.goal_name
            /\ \A i \in 1..Len(FocusConflicts) : FocusProduct(t) >= FocusProduct(i)


\* the weighted terms of the sum that produces raw_score, for one returned row,
\* in units of 1e-8, each under the name dominant_factor could give it
SumTerms(row) ==
    LET weights == _context_weights(call.ranking_input)
        parts == row.score_breakdown
    IN  << [name |-> "base", value |-> weights.base * parts.base_score],
           [name |-> "severity", value |-> weights.severity * parts.habit_severity],
           [name |-> "goal_pressure", value |-> weights.goal * parts.goal_pressure],
           [name |-> "night_spikes", value |-> weights.risk * parts.risk_fit],
           [name |-> "consistency_risk", value |-> weights.profile * parts.profile_fit],
           [name |-> "frequency", value |-> weights.urgency * parts.urgency_signal],
           [name |-> "upstream", value |-> weights.upstream * parts.upstream_signal] >>

\* the five behaviour products the ranking compares, in the order it lists them
DominanceTerms ==
    LET weights == _context_weights(call.ranking_input)
        user_profile == call.ranking_input.user_profile
        frequency == Get(user_profile, "frequency", 0)
        frequency_pressure == IF frequency <= 0 THEN 0
                              ELSE IF frequency >= 7 THEN One ELSE Ratio(frequency, 7)
        night_pressure == Clamp01(Get(user_profile, "night_ratio", 0))
        consistency == Clamp01(Get(user_profile, "consistency", Pct(50)))
    IN  << [name |-> "severity",
            value |-> weights.severity * call.ranking_input.habit_severity],
           [name |-> "goal_pressure",
            value |-> weights.goal * (One - call.ranking_input.goal_feasibility)],
           [name |-> "frequency", value |-> weights.urgency * frequency_pressure],
           [name |-> "night_spikes", value |-> weights.risk * night_pressure],
           [name |-> "consistency_risk", value |-> weights.profile * (One - consistency)] >>

\* C23 as stated: dominant_factor names the largest term of the sum that
\* produces the row's raw_score.
C23_DominantIsLargestSumTerm ==
    Done("rank") =>
        \A row \in ReturnedRows :
            \E t \in 1..7 :
                /\ SumTerms(row)[t].name = row.dominant_factor
                /\ \A u \in 1..7 : SumTerms(row)[t].value >= SumTerms(row)[u].value

\* C23 (amended): dominant_factor is the first largest of the five products
\* severity, goal_pressure, frequency, night_spikes, consistency_risk formed from
\* the context weights and the ranking input alone, so every row of one call
\* carries the same dominant_factor.
C23_DominantIsLargestBehaviourProduct ==
    Done("rank") =>
        \A row \in ReturnedRows :
            \E t \in 1..5 :
                /\ DominanceTerms[t].name = row.dominant_factor
                /\ \A u \in 1..5 :
                    IF u < t THEN DominanceTerms[u].value < DominanceTerms[t].value
                    ELSE DominanceTerms[u].value <= DominanceTerms[t].value

\* C23 witness: a call whose rows name night_spikes although the base term is the
\* largest term of the sum.
C23_Witness ==
    /\ Done("rank")
    /\ \E row \in ReturnedRows :
        /\ row.dominant_factor = "night_spikes"
        /\ \A u \in 1..7 : SumTerms(row)[1].value >= SumTerms(row)[u].value


\* C24: for a non-Fixed category the flags agree with the thresholds applied to
\* the reported confidence: habit_detected exactly when confidence >= 0.5,
\* intensity High from 0.75, Medium from 0.5, Low below.
C24_FlagsMatchReportedConfidence ==
    (Done("predict") /\ CategoryNature(StripLower(call.category)) # "Fixed") =>
        LET r == result.returned
        IN  /\ r.habit_detected <=> r.confidence >= Pct(50)
            /\ r.habit_intensity = (IF r.confidence >= Pct(75) THEN "High"
                                    ELSE IF r.confidence >= Pct(50) THEN "Medium"
                                    ELSE "Low")

\* C24, the part that holds: habit_detected exactly when the intensity is Medium
\* or High, and without a loaded model the flags do match the reported confidence.
C24_FlagsMatchEachOther ==
    (Done("predict") /\ CategoryNature(StripLower(call.category)) # "Fixed") =>
        LET r == result.returned
        IN  /\ r.habit_detected <=> r.habit_intensity \in {"Medium", "High"}
            /\ habit_model = NoModel =>
                /\ r.habit_detected <=> r.confidence >= Pct(50)
                /\ r.habit_intensity = "High" <=> r.confidence >= Pct(75)


\* the tier of a reported score under the descending thresholds
ReportedTier(score) ==
    IF score >= Pct(80) THEN "Critical"
    ELSE IF score >= Pct(62) THEN "High"
    ELSE IF score >= Pct(42) THEN "Medium"
    ELSE "Low"

ImmediateWording(entry) ==
    entry.recommended_action.text
        = "Immediate action required: freeze non-essential spends for one cycle and redirect at least the monthly amount to the goal."

\* C25: every goal_conflicts entry's severity is the tier of its reported
\* conflict_score, overall_severity is the tier of the reported overall score, and
\* the immediate-action wording is used exactly from a reported score of 0.8.
C25_SeverityIsTierOfReportedScore ==
    Done("detect_conflicts") =>
        LET r == result.returned
        IN  /\ r.overall_severity = ReportedTier(r.overall_conflict_score)
            /\ \A i \in 1..Len(r.goal_conflicts) :
                /\ r.goal_conflicts[i].severity = ReportedTier(r.goal_conflicts[i].conflict_score)
                /\ ImmediateWording(r.goal_conflicts[i])
                       <=> r.goal_conflicts[i].conflict_score >= Pct(80)

\* C25, the part that holds: overall_severity is the tier of the reported overall
\* score, and an entry's severity is never above the tier of its reported score.
C25_OverallSeverityIsTierOfReportedScore ==
    Done("detect_conflicts") =>
        LET r == result.returned
        IN  /\ r.overall_severity = ReportedTier(r.overall_conflict_score)
            /\ \A i \in 1..Len(r.goal_conflicts) :
                /\ r.goal_conflicts[i].severity
                       \in {ReportedTier(r.goal_conflicts[i].conflict_score),
                            ReportedTier(r.goal_conflicts[i].conflict_score - 500)}
                /\ ImmediateWording(r.goal_conflicts[i])
                       => r.goal_conflicts[i].conflict_score >= Pct(80)

\* C29: conflict_detected exactly when alerts is non-empty, and overall_severity
\* is the severity of the first entry of goal_conflicts.
C29_DetectedIffAlerts ==
    (Done("detect_conflicts") /\ call.active_goals # <<>>) =>
        LET r == result.returned
        IN  /\ r.conflict_detected <=> r.alerts # <<>>
            /\ r.overall_severity = r.goal_conflicts[1].severity


\* the goal pressure of the claim for the call's goal, with the progress ratio
\* given; amounts and months are taken after normalisation
PressureWith(progress_ratio) ==
    LET target == IF call.goal.target_amount < 0 THEN 0 ELSE call.goal.target_amount
        current == IF call.goal.current_amount < 0 THEN 0 ELSE call.goal.current_amount
        timeline == IF call.goal.timeline_months < 1 THEN 1 ELSE call.goal.timeline_months
        priority == IF call.goal.priority < 1 THEN 1
                    ELSE IF call.goal.priority > 5 THEN 5 ELSE call.goal.priority
        remaining == IF target > current THEN target - current ELSE 0
        urgency == IF timeline <= 6 THEN One ELSE Ratio(6, timeline)
        affordability ==
            IF call.monthly_capacity > 0
            THEN (IF remaining >= timeline * call.monthly_capacity THEN One
                  ELSE Ratio(remaining, timeline * call.monthly_capacity))
            ELSE IF remaining > 0 THEN One ELSE 0
        sum == (40 * (priority * 200000) + 25 * urgency + 20 * affordability
                + 15 * (One - progress_ratio)) \div 100
    IN  IF sum < 0 THEN 0 ELSE IF sum > One THEN One ELSE sum

\* C26 as stated: progress_ratio = current / target (1 if target <= 0), also when
\* current exceeds target.
C26_GoalPressureFormula ==
    Done("_goal_pressure") =>
        result.returned
            = PressureWith(IF call.goal.target_amount <= 0 THEN One
                           ELSE Ratio(call.goal.current_amount, call.goal.target_amount))

\* C26 (amended): the formula holds with progress_ratio = min(current / target, 1)
\* (1 if target <= 0); every call returns a value in [0, 1], so no target 0,
\* capacity 0 or raw timeline 0 divides by zero.
C26_GoalPressureFormulaCapped ==
    Done("_goal_pressure") =>
        /\ HasReturned
        /\ result.returned >= 0 /\ result.returned <= One
        /\ result.returned
            = PressureWith(IF call.goal.target_amount <= 0 THEN One
                           ELSE IF call.goal.current_amount >= call.goal.target_amount
                           THEN One
                           ELSE Ratio(call.goal.current_amount, call.goal.target_amount))

\* C26 witness: an overfunded goal with raw timeline 0 and no capacity is scored.
C26_Witness ==
    /\ Done("_goal_pressure")
    /\ call.goal.target_amount > 0
    /\ call.goal.current_amount > call.goal.target_amount
    /\ call.goal.timeline_months = 0
    /\ call.monthly_capacity = 0
    /\ result.returned = Pct(49)


\* the success delta of a row's reported raw score and difficulty level
SuccessDeltaOf(row) ==
    LET multiplier == IF row.difficulty_level = "Easy" THEN 115
                      ELSE IF row.difficulty_level = "Behavioral Shift Required" THEN 85
                      ELSE 100
        delta == (row.raw_score * 18 * multiplier) \div 10000
    IN  IF delta < Pct(6) THEN Pct(6) ELSE IF delta > Pct(22) THEN Pct(22) ELSE delta

\* C27: for every row returned by rank, goal_success_probability_before is in
\* [20, 95] and the same for all rows; goal_success_probability_after is strictly
\* greater and at most 98; goal_timeline_reduction_months is
\* max(0.6, (after - before) / 5) to the one decimal reported, hence >= 0.6; after
\* is min(98, before + delta) to one decimal, the delta being 18 x raw score x
\* multiplier (1.15 Easy, 1.0 Moderate, 0.85 Behavioral Shift) kept in [6, 22];
\* and feasibility_impact_pct is in [-20, -6].
C27_ProjectionsInRange ==
    Done("rank") =>
        \A row \in ReturnedRows :
            /\ row.goal_success_probability_before >= Pct(20)
            /\ row.goal_success_probability_before <= Pct(95)
            /\ \A other \in ReturnedRows :
                other.goal_success_probability_before = row.goal_success_probability_before
            /\ row.goal_success_probability_after > row.goal_success_probability_before
            /\ row.goal_success_probability_after <= Pct(98)
            /\ row.goal_timeline_reduction_months
                = RoundTo(Max(6000, (row.goal_success_probability_after
                                     - row.goal_success_probability_before) \div 5), 1000)
            /\ row.goal_timeline_reduction_months >= 6000
            /\ SuccessDeltaOf(row) >= Pct(6) /\ SuccessDeltaOf(row) <= Pct(22)
            /\ LET after == Min(Pct(98), row.goal_success_probability_before
                                             + SuccessDeltaOf(row))
               IN  /\ row.goal_success_probability_after >= after - 1000
                   /\ row.goal_success_probability_after <= after + 1000
            /\ row.feasibility_impact_pct >= 0 - Pct(20)
            /\ row.feasibility_impact_pct <= 0 - Pct(6)

\* C27 witness: rows of an Easy and of a Behavioral-Shift template whose success
\* probability rises by different amounts, neither capped at 98.
C27_Witness ==
    /\ Done("rank")
    /\ \E easy, hard \in ReturnedRows :
        /\ easy.difficulty_level = "Easy"
        /\ hard.difficulty_level = "Behavioral Shift Required"
        /\ easy.goal_success_probability_after < Pct(98)
        /\ hard.goal_success_probability_after < Pct(98)
        /\ easy.goal_success_probability_after # hard.goal_success_probability_after
        /\ easy.goal_timeline_reduction_months > 6000
        /\ easy.feasibility_impact_pct < 0 - Pct(6)


\* C28: calibration keeps the raw order of the rows of one rank call, every
\* calibrated score is in [0.55, 0.99], equal raw scores are calibrated without
\* an error, and score_tier is the tier of score_pct.
C28_CalibrationPreservesOrder ==
    Done("rank") =>
        /\ HasReturned
        /\ \A a, b \in ReturnedRows : a.raw_score >= b.raw_score => a.score >= b.score
        /\ \A row \in ReturnedRows :
            /\ row.score >= Pct(55) /\ row.score <= Pct(99)
            /\ row.score_tier = (IF row.score_pct >= Pct(85) THEN "Critical"
                                 ELSE IF row.score_pct >= Pct(70) THEN "High"
                                 ELSE IF row.score_pct >= Pct(55) THEN "Moderate"
                                 ELSE "Low")

\* C28 witness: three rows with three raw scores, the middle one calibrated
\* strictly between the ends and in another tier than both.
C28_Witness ==
    /\ Done("rank")
    /\ \E a, b, c \in ReturnedRows :
        /\ a.raw_score > b.raw_score /\ b.raw_score > c.raw_score
        /\ a.score > b.score /\ b.score > c.score
        /\ a.score_tier = "Critical" /\ b.score_tier = "High" /\ c.score_tier = "Moderate"

\* the raw scores of all candidates of the call, returned or cut off by top_k
CandidateRawScores ==
    {ScoredRow(_normalize_candidate(call.candidates[i]), call.ranking_input).raw_score :
        i \in 1..Len(call.candidates)}

\* C30: a row holding the lowest raw score of the call has score 0.55 (Moderate);
\* when the raw scores are not all equal a row holding the highest has 0.98
\* (Critical) and is returned first; when they are all equal, or the candidate is
\* alone, every row has 0.55; no row has tier Low.
C30_ScoreRelativeToPeers ==
    Done("rank") =>
        /\ \A row \in ReturnedRows :
            /\ row.score_tier # "Low"
            /\ (\A raw \in CandidateRawScores : row.raw_score <= raw)
                   => (row.score = Pct(55) /\ row.score_tier = "Moderate")
            /\ ((\A raw \in CandidateRawScores : row.raw_score >= raw)
                    /\ Cardinality(CandidateRawScores) > 1)
                   => (row.score = Pct(98) /\ row.score_tier = "Critical")
        /\ Cardinality(CandidateRawScores) > 1 => result.returned[1].score = Pct(98)
        /\ (Len(call.candidates) = Len(result.returned)
               /\ Cardinality(CandidateRawScores) > 1)
               => \E row \in ReturnedRows : row.score = Pct(55)

\* C30 witness: three candidates, two of them with the same lowest raw score
\* above 0.55 and calibrated to 0.55, the third calibrated to 0.98.
C30_Witness ==
    /\ Done("rank")
    /\ Len(result.returned) = 3
    /\ result.returned[1].score = Pct(98)
    /\ result.returned[2].score = Pct(55)
    /\ result.returned[3].score = Pct(55)
    /\ result.returned[2].raw_score > Pct(55)
    /\ result.returned[1].raw_score < Pct(98)

\* C30 witness of the equal case: two candidates with one raw score.
C30_EqualScores_Witness ==
    /\ Done("rank")
    /\ Len(result.returned) = 2
    /\ result.returned[1].raw_score = result.returned[2].raw_score
    /\ result.returned[1].score = Pct(55)
    /\ result.returned[2].score = Pct(55)


====
